---- MODULE Spec2Model ----
(***************************************************************************)
(* Relations API of src/game/Entities/Relations.cpp: reactions between     *)
(* faction templates, units, game objects and dynamic objects, and the     *)
(* attack / assist / group predicates built on them.                       *)
(*                                                                         *)
(* Every function of the file is a read-only query.  The world (faction    *)
(* stores, units, objects) is drawn by Init and never changes; each action *)
(* is one call of one function of the file and records the call and its    *)
(* return value in `last`.                                                 *)
(***************************************************************************)
EXTENDS Integers, Sequences, FiniteSets, TLC

VARIABLES
    tpl,      \* sFactionTemplateStore: template id -> FactionTemplateEntry
    fac,      \* sFactionStore: faction id -> FactionEntry
    units,    \* the units in the world: guid -> Unit / Player / Creature fields
    gos,      \* the game objects: id -> GameObject fields
    dyns,     \* the dynamic objects: id -> DynamicObject fields
    corpses,  \* the corpses: id -> Corpse fields
    config,   \* sWorld configuration: the switches the file reads
    last      \* the last call: [op, a, b, res]

vars == <<tpl, fac, units, gos, dyns, corpses, config, last>>

(***************************************************************************)
(* Bounds of the model.                                                    *)
(***************************************************************************)
\* units in the world, guids 1..NumUnits
NumUnits == 3
\* faction group masks of the drawn templates range over 0..MaxMask
MaxMask == 2
\* faction ids of the drawn templates range over 0..MaxFaction
MaxFaction == 1
\* slots of the explicit enemy / friend faction lists that are modelled
NumSlots == 2

(***************************************************************************)
(* ReputationRank, ascending from most hostile to most friendly.           *)
(***************************************************************************)
REP_HATED == 0
REP_HOSTILE == 1
REP_UNFRIENDLY == 2
REP_NEUTRAL == 3
REP_FRIENDLY == 4
REP_HONORED == 5
REP_REVERED == 6
REP_EXALTED == 7

Ranks == REP_HATED..REP_EXALTED

\* GetForcedRankIfAny returns a null pointer when no rank is forced
NoRank == 0 - 1

\* the outcome of a call that fails a MANGOS_ASSERT: the server stops
Abort == 0 - 2

UnitIds == 1..NumUnits

\* a guid that ObjectAccessor::GetUnit does not find in the world
MissingGuid == NumUnits + 1

\* x & y on naturals
RECURSIVE BitAnd(_, _)
BitAnd(x, y) ==
    IF x = 0 \/ y = 0 THEN 0
    ELSE (IF x % 2 = 1 /\ y % 2 = 1 THEN 1 ELSE 0) + 2 * BitAnd(x \div 2, y \div 2)

\* a faction list of NumSlots slots holding s, the unused slots 0
Slots(s) == [i \in 1..NumSlots |-> IF i <= Len(s) THEN s[i] ELSE 0]

(***************************************************************************)
(* Store lookups.  A pointer to a store entry is modelled by the entry's   *)
(* id, the null pointer by 0.                                              *)
(***************************************************************************)
LookupTemplate(id) == IF id \in DOMAIN tpl THEN id ELSE 0

GetFactionTemplateEntry(u) == LookupTemplate(units[u].faction)

\* thisFactionEntry && thisFactionEntry->HasReputation()
FactionHasReputation(f) == f \in DOMAIN fac /\ fac[f].hasReputation

HasFlag(u, mask) == units[u].flags \cap mask # {}

HasPlayerFlag(p, mask) == units[p].playerFlags \cap mask # {}

GetUnit(guid) == IF guid \in DOMAIN units THEN guid ELSE 0

\* sObjectMgr.GetPlayer: the player of that guid, if it is in the world
GetPlayer(guid) ==
    IF guid \in DOMAIN units /\ units[guid].typeId = "TYPEID_PLAYER" THEN guid ELSE 0

GetOwnerGuid(u) == units[u].owner

GetCharmerGuid(u) == units[u].charmer

GetMasterGuid(u) == IF units[u].charmer # 0 THEN units[u].charmer ELSE units[u].owner

GetMaster(u) == GetUnit(GetMasterGuid(u))

\* Unit::IsPlayerControlled
IsPlayerControlled(u) == HasFlag(u, {"PLAYER_CONTROLLED"})

\* Player::IsInDuelWith: the duel of p has started and its opponent is q
IsInDuelWith(p, q) == units[p].duelOpponent = q

\* m_forcedReactions.find(factionTemplateEntry->faction)
GetForcedRankIfAny(p, t) ==
    IF tpl[t].faction \in DOMAIN units[p].forced
    THEN units[p].forced[tpl[t].faction]
    ELSE NoRank

GetRank(p, f) == units[p].rank[f]

IsAtWar(p, f) == f \in units[p].atWar

(***************************************************************************)
(* Tier 1                                                                  *)
(***************************************************************************)
GetControllingPlayer(u, ignoreCharms) ==
    LET masterGuid == IF ignoreCharms THEN GetOwnerGuid(u) ELSE GetMasterGuid(u)
        master == GetUnit(masterGuid)
    IN  IF masterGuid # 0
        THEN IF master # 0 /\ units[master].typeId = "TYPEID_PLAYER" THEN master ELSE 0
        ELSE IF units[u].typeId = "TYPEID_PLAYER" THEN u ELSE 0

InList(list, id) == \E i \in 1..NumSlots : list[i] = id

\* mutant: the friend group mask is tested before the enemy group mask
GetFactionReaction_Template_FriendFirst(thisTemplate, otherTemplate) ==
    LET a == tpl[thisTemplate]
        b == tpl[otherTemplate]
    IN  IF BitAnd(b.factionGroupMask, a.friendGroupMask) # 0 THEN REP_FRIENDLY
        ELSE IF BitAnd(b.factionGroupMask, a.enemyGroupMask) # 0 THEN REP_HOSTILE
        ELSE IF a.enemyFaction[1] # 0 /\ b.faction # 0 /\ InList(a.enemyFaction, b.faction)
        THEN REP_HOSTILE
        ELSE IF a.friendFaction[1] # 0 /\ b.faction # 0 /\ InList(a.friendFaction, b.faction)
        THEN REP_FRIENDLY
        ELSE IF BitAnd(a.factionGroupMask, b.friendGroupMask) # 0 THEN REP_FRIENDLY
        ELSE IF b.friendFaction[1] # 0 /\ a.faction # 0 /\ InList(b.friendFaction, a.faction)
        THEN REP_FRIENDLY
        ELSE REP_NEUTRAL

\* mutant: the reverse friend list test is left out
GetFactionReaction_Template_NoReverseList(thisTemplate, otherTemplate) ==
    LET a == tpl[thisTemplate]
        b == tpl[otherTemplate]
    IN  IF BitAnd(b.factionGroupMask, a.enemyGroupMask) # 0 THEN REP_HOSTILE
        ELSE IF a.enemyFaction[1] # 0 /\ b.faction # 0 /\ InList(a.enemyFaction, b.faction)
        THEN REP_HOSTILE
        ELSE IF BitAnd(b.factionGroupMask, a.friendGroupMask) # 0 THEN REP_FRIENDLY
        ELSE IF a.friendFaction[1] # 0 /\ b.faction # 0 /\ InList(a.friendFaction, b.faction)
        THEN REP_FRIENDLY
        ELSE IF BitAnd(a.factionGroupMask, b.friendGroupMask) # 0 THEN REP_FRIENDLY
        ELSE REP_NEUTRAL

GetFactionReaction_Template(thisTemplate, otherTemplate) ==
    LET a == tpl[thisTemplate]
        b == tpl[otherTemplate]
    IN  IF thisTemplate = 0 \/ otherTemplate = 0 THEN Abort
        ELSE IF BitAnd(b.factionGroupMask, a.enemyGroupMask) # 0 THEN REP_HOSTILE
        ELSE IF a.enemyFaction[1] # 0 /\ b.faction # 0 /\ InList(a.enemyFaction, b.faction)
        THEN REP_HOSTILE
        ELSE IF BitAnd(b.factionGroupMask, a.friendGroupMask) # 0 THEN REP_FRIENDLY
        ELSE IF a.friendFaction[1] # 0 /\ b.faction # 0 /\ InList(a.friendFaction, b.faction)
        THEN REP_FRIENDLY
        ELSE IF BitAnd(a.factionGroupMask, b.friendGroupMask) # 0 THEN REP_FRIENDLY
        ELSE IF b.friendFaction[1] # 0 /\ a.faction # 0 /\ InList(b.friendFaction, a.faction)
        THEN REP_FRIENDLY
        ELSE REP_NEUTRAL

\* mutant: the forced rank is tested before the contested guard override
ReactionToPlayer_ForcedFirst(thisTemplate, unitPlayer) ==
    LET thisFaction == tpl[thisTemplate].faction
    IN  IF GetForcedRankIfAny(unitPlayer, thisTemplate) # NoRank
        THEN GetForcedRankIfAny(unitPlayer, thisTemplate)
        ELSE IF HasPlayerFlag(unitPlayer, {"CONTESTED_PVP"}) /\ tpl[thisTemplate].contestedGuard
        THEN REP_HOSTILE
        ELSE IF FactionHasReputation(thisFaction)
        THEN GetRank(unitPlayer, thisFaction)
        ELSE NoRank

\* mutant: the reputation rank is tested before the forced rank
ReactionToPlayer_RankFirst(thisTemplate, unitPlayer) ==
    LET thisFaction == tpl[thisTemplate].faction
    IN  IF HasPlayerFlag(unitPlayer, {"CONTESTED_PVP"}) /\ tpl[thisTemplate].contestedGuard
        THEN REP_HOSTILE
        ELSE IF FactionHasReputation(thisFaction)
        THEN GetRank(unitPlayer, thisFaction)
        ELSE IF GetForcedRankIfAny(unitPlayer, thisTemplate) # NoRank
        THEN GetForcedRankIfAny(unitPlayer, thisTemplate)
        ELSE NoRank

\* lines 168-179: the overrides of a resolved controlling player; NoRank when
\* none of them applies
ReactionToPlayer(thisTemplate, unitPlayer) ==
    LET thisFaction == tpl[thisTemplate].faction
    IN  IF HasPlayerFlag(unitPlayer, {"CONTESTED_PVP"}) /\ tpl[thisTemplate].contestedGuard
        THEN REP_HOSTILE
        ELSE IF GetForcedRankIfAny(unitPlayer, thisTemplate) # NoRank
        THEN GetForcedRankIfAny(unitPlayer, thisTemplate)
        ELSE IF FactionHasReputation(thisFaction)
        THEN GetRank(unitPlayer, thisFaction)
        ELSE NoRank

GetFactionReaction_Unit(thisTemplate, unit) ==
    LET unitFactionTemplate == GetFactionTemplateEntry(unit)
        unitPlayer == GetControllingPlayer(unit, FALSE)
        fallback == GetFactionReaction_Template(thisTemplate, unitFactionTemplate)
    IN  IF thisTemplate = 0 \/ unitFactionTemplate = 0 THEN REP_NEUTRAL
        ELSE IF /\ HasFlag(unit, {"PLAYER_CONTROLLED"})
                /\ unitPlayer # 0
                /\ ReactionToPlayer(thisTemplate, unitPlayer) # NoRank
        THEN ReactionToPlayer(thisTemplate, unitPlayer)
        ELSE fallback

SameDuel(p, q) ==
    /\ units[p].duelTeam # 0
    /\ units[q].duelTeam # 0
    /\ units[p].duelArbiter = units[q].duelArbiter

SameGroup(p, q, party) ==
    /\ units[p].group # 0
    /\ units[p].group = units[q].group
    /\ (~party \/ units[p].subGroup = units[q].subGroup)

Unit_IsInGroup(this, other, party, ignoreCharms) ==
    LET thisPlayer == GetControllingPlayer(this, ignoreCharms)
        otherPlayer == GetControllingPlayer(other, ignoreCharms)
    IN  IF this = other THEN TRUE
        ELSE IF /\ HasFlag(this, {"PLAYER_CONTROLLED"})
                /\ HasFlag(other, {"PLAYER_CONTROLLED"})
                /\ thisPlayer # 0
                /\ otherPlayer # 0
        THEN thisPlayer = otherPlayer \/ SameGroup(thisPlayer, otherPlayer, party)
        ELSE FALSE

Player_IsInGroup(this, other, party, ignoreCharms) ==
    IF this # other /\ ignoreCharms /\ units[other].typeId = "TYPEID_PLAYER"
    THEN SameGroup(this, other, party)
    ELSE Unit_IsInGroup(this, other, party, ignoreCharms)

\* lines 255-267: faction to unit, then the persuasion step
ReactionFallback(this, unit) ==
    LET unitFactionTemplate == GetFactionTemplateEntry(unit)
        reaction == GetFactionReaction_Unit(GetFactionTemplateEntry(this), unit)
    IN  IF /\ reaction > REP_HOSTILE
           /\ reaction < REP_HONORED
           /\ (HasFlag(unit, {"PERSUADED"}) \/ units[this].persuaded = unit)
           /\ unitFactionTemplate # 0
           /\ FactionHasReputation(tpl[unitFactionTemplate].faction)
        THEN reaction + 1
        ELSE reaction

\* mutant: the contested guard rule comes before the forced rank
ReactionByPlayer_ContestedFirst(this, unit) ==
    LET thisPlayer == GetControllingPlayer(this, FALSE)
        unitFactionTemplate == GetFactionTemplateEntry(unit)
        unitFaction == tpl[unitFactionTemplate].faction
    IN  IF thisPlayer # 0 /\ unitFactionTemplate # 0
        THEN IF /\ FactionHasReputation(unitFaction)
                /\ HasPlayerFlag(thisPlayer, {"CONTESTED_PVP"})
                /\ tpl[unitFactionTemplate].contestedGuard
             THEN REP_HOSTILE
             ELSE IF GetForcedRankIfAny(thisPlayer, unitFactionTemplate) # NoRank
             THEN GetForcedRankIfAny(thisPlayer, unitFactionTemplate)
             ELSE IF FactionHasReputation(unitFaction)
             THEN IF IsAtWar(thisPlayer, unitFaction) THEN REP_HOSTILE ELSE REP_FRIENDLY
             ELSE ReactionFallback(this, unit)
        ELSE ReactionFallback(this, unit)

\* lines 233-252: the caller's controlling player against the unit's faction
ReactionByPlayer(this, unit) ==
    LET thisPlayer == GetControllingPlayer(this, FALSE)
        unitFactionTemplate == GetFactionTemplateEntry(unit)
        unitFaction == tpl[unitFactionTemplate].faction
    IN  IF thisPlayer # 0 /\ unitFactionTemplate # 0
        THEN IF GetForcedRankIfAny(thisPlayer, unitFactionTemplate) # NoRank
             THEN GetForcedRankIfAny(thisPlayer, unitFactionTemplate)
             ELSE IF FactionHasReputation(unitFaction)
             THEN IF /\ HasPlayerFlag(thisPlayer, {"CONTESTED_PVP"})
                     /\ tpl[unitFactionTemplate].contestedGuard
                  THEN REP_HOSTILE
                  ELSE IF IsAtWar(thisPlayer, unitFaction) THEN REP_HOSTILE
                       ELSE REP_FRIENDLY
             ELSE ReactionFallback(this, unit)
        ELSE ReactionFallback(this, unit)

\* mutant: Neutral only when neither side resolves to a player
ReactionBetweenPlayerControlled_BothUnresolved(this, unit) ==
    LET thisPlayer == GetControllingPlayer(this, FALSE)
        unitPlayer == GetControllingPlayer(unit, FALSE)
    IN  IF thisPlayer = 0 /\ unitPlayer = 0 THEN REP_NEUTRAL
        ELSE IF thisPlayer = 0 \/ unitPlayer = 0 THEN ReactionByPlayer(this, unit)
        ELSE IF thisPlayer = unitPlayer THEN REP_FRIENDLY
        ELSE IF SameDuel(thisPlayer, unitPlayer)
        THEN IF units[thisPlayer].duelTeam # units[unitPlayer].duelTeam
             THEN REP_HOSTILE ELSE REP_FRIENDLY
        ELSE IF Player_IsInGroup(thisPlayer, unitPlayer, FALSE, FALSE) THEN REP_FRIENDLY
        ELSE IF units[thisPlayer].ffa /\ units[unitPlayer].ffa THEN REP_HOSTILE
        ELSE ReactionByPlayer(this, unit)

\* mutant: the same-group check is left out
ReactionBetweenPlayerControlled_NoGroupCheck(this, unit) ==
    LET thisPlayer == GetControllingPlayer(this, FALSE)
        unitPlayer == GetControllingPlayer(unit, FALSE)
    IN  IF thisPlayer = 0 \/ unitPlayer = 0 THEN REP_NEUTRAL
        ELSE IF thisPlayer = unitPlayer THEN REP_FRIENDLY
        ELSE IF SameDuel(thisPlayer, unitPlayer)
        THEN IF units[thisPlayer].duelTeam # units[unitPlayer].duelTeam
             THEN REP_HOSTILE ELSE REP_FRIENDLY
        ELSE IF units[thisPlayer].ffa /\ units[unitPlayer].ffa THEN REP_HOSTILE
        ELSE ReactionByPlayer(this, unit)

\* lines 210-231: both sides player controlled
ReactionBetweenPlayerControlled(this, unit) ==
    LET thisPlayer == GetControllingPlayer(this, FALSE)
        unitPlayer == GetControllingPlayer(unit, FALSE)
    IN  IF thisPlayer = 0 \/ unitPlayer = 0 THEN REP_NEUTRAL
        ELSE IF thisPlayer = unitPlayer THEN REP_FRIENDLY
        ELSE IF SameDuel(thisPlayer, unitPlayer)
        THEN IF units[thisPlayer].duelTeam # units[unitPlayer].duelTeam
             THEN REP_HOSTILE ELSE REP_FRIENDLY
        ELSE IF Player_IsInGroup(thisPlayer, unitPlayer, FALSE, FALSE) THEN REP_FRIENDLY
        ELSE IF units[thisPlayer].ffa /\ units[unitPlayer].ffa THEN REP_HOSTILE
        ELSE ReactionByPlayer(this, unit)

\* mutant: the same-unit check is left out
Unit_GetReactionTo_NoSelfCheck(this, unit) ==
    IF HasFlag(this, {"PLAYER_CONTROLLED"})
    THEN IF HasFlag(unit, {"PLAYER_CONTROLLED"})
         THEN ReactionBetweenPlayerControlled(this, unit)
         ELSE ReactionByPlayer(this, unit)
    ELSE ReactionFallback(this, unit)

Unit_GetReactionTo(this, unit) ==
    IF this = unit THEN REP_FRIENDLY
    ELSE IF HasFlag(this, {"PLAYER_CONTROLLED"})
    THEN IF HasFlag(unit, {"PLAYER_CONTROLLED"})
         THEN ReactionBetweenPlayerControlled(this, unit)
         ELSE ReactionByPlayer(this, unit)
    ELSE ReactionFallback(this, unit)

\* lines 277-292
Unit_GetReactionTo_Corpse(this, corpse) ==
    LET thisTemplate == GetFactionTemplateEntry(this)
        corpseTemplateId == corpses[corpse].faction
        corpseTemplate == LookupTemplate(corpseTemplateId)
    IN  IF thisTemplate # 0 /\ corpseTemplateId # 0 /\ corpseTemplate # 0
        THEN GetFactionReaction_Template(thisTemplate, corpseTemplate)
        ELSE REP_NEUTRAL

Unit_IsEnemy(this, unit) == Unit_GetReactionTo(this, unit) < REP_UNFRIENDLY

Unit_IsFriend(this, unit) == Unit_GetReactionTo(this, unit) > REP_NEUTRAL

AttackBlockMask ==
    {"SPAWNING", "NOT_ATTACKABLE_1", "UNTARGETABLE", "TAXI_FLIGHT", "UNINTERACTIBLE"}

\* mutant: the duel check is left out
Unit_CanAttack_NoDuelCheck(this, unit) ==
    LET thisPlayerControlled == HasFlag(this, {"PLAYER_CONTROLLED"})
        unitPlayerControlled == HasFlag(unit, {"PLAYER_CONTROLLED"})
        thisPlayer == GetControllingPlayer(this, FALSE)
        unitPlayer == GetControllingPlayer(unit, FALSE)
    IN  IF /\ units[this].typeId = "TYPEID_UNIT"
           /\ units[unit].typeId = "TYPEID_PLAYER"
           /\ HasPlayerFlag(unit, {"GHOST"})
           /\ ~units[this].visibleToGhosts
        THEN FALSE
        ELSE IF HasFlag(unit, AttackBlockMask) THEN FALSE
        ELSE IF thisPlayerControlled /\ HasFlag(unit, {"IMMUNE_TO_PLAYER"}) THEN FALSE
        ELSE IF ~thisPlayerControlled /\ HasFlag(unit, {"IMMUNE_TO_NPC"}) THEN FALSE
        ELSE IF unitPlayerControlled /\ HasFlag(this, {"IMMUNE_TO_PLAYER"}) THEN FALSE
        ELSE IF ~unitPlayerControlled /\ HasFlag(this, {"IMMUNE_TO_NPC"}) THEN FALSE
        ELSE IF thisPlayerControlled /\ unitPlayerControlled
        THEN IF Unit_IsFriend(this, unit) THEN FALSE
             ELSE IF thisPlayer = 0 THEN TRUE
             ELSE IF unitPlayer = 0 THEN TRUE
             ELSE IF units[unitPlayer].pvp THEN TRUE
             ELSE IF units[thisPlayer].ffa /\ units[unitPlayer].ffa THEN TRUE
             ELSE FALSE
        ELSE IF thisPlayerControlled \/ unitPlayerControlled
        THEN ~Unit_IsFriend(this, unit)
        ELSE Unit_IsEnemy(this, unit) \/ Unit_IsEnemy(unit, this)

\* mutant: a mixed pair is decided by IsEnemy
Unit_CanAttack_MixedByEnemy(this, unit) ==
    LET thisPlayerControlled == HasFlag(this, {"PLAYER_CONTROLLED"})
        unitPlayerControlled == HasFlag(unit, {"PLAYER_CONTROLLED"})
        thisPlayer == GetControllingPlayer(this, FALSE)
        unitPlayer == GetControllingPlayer(unit, FALSE)
    IN  IF /\ units[this].typeId = "TYPEID_UNIT"
           /\ units[unit].typeId = "TYPEID_PLAYER"
           /\ HasPlayerFlag(unit, {"GHOST"})
           /\ ~units[this].visibleToGhosts
        THEN FALSE
        ELSE IF HasFlag(unit, AttackBlockMask) THEN FALSE
        ELSE IF thisPlayerControlled /\ HasFlag(unit, {"IMMUNE_TO_PLAYER"}) THEN FALSE
        ELSE IF ~thisPlayerControlled /\ HasFlag(unit, {"IMMUNE_TO_NPC"}) THEN FALSE
        ELSE IF unitPlayerControlled /\ HasFlag(this, {"IMMUNE_TO_PLAYER"}) THEN FALSE
        ELSE IF ~unitPlayerControlled /\ HasFlag(this, {"IMMUNE_TO_NPC"}) THEN FALSE
        ELSE IF thisPlayerControlled /\ unitPlayerControlled
        THEN IF Unit_IsFriend(this, unit) THEN FALSE
             ELSE IF thisPlayer = 0 THEN TRUE
             ELSE IF unitPlayer = 0 THEN TRUE
             ELSE IF SameDuel(thisPlayer, unitPlayer) THEN TRUE
             ELSE IF units[unitPlayer].pvp THEN TRUE
             ELSE IF units[thisPlayer].ffa /\ units[unitPlayer].ffa THEN TRUE
             ELSE FALSE
        ELSE IF thisPlayerControlled \/ unitPlayerControlled
        THEN Unit_IsEnemy(this, unit)
        ELSE Unit_IsEnemy(this, unit) \/ Unit_IsEnemy(unit, this)

\* mutant: two units that no player controls must both see an enemy
Unit_CanAttack_MutualEnmity(this, unit) ==
    LET thisPlayerControlled == HasFlag(this, {"PLAYER_CONTROLLED"})
        unitPlayerControlled == HasFlag(unit, {"PLAYER_CONTROLLED"})
        thisPlayer == GetControllingPlayer(this, FALSE)
        unitPlayer == GetControllingPlayer(unit, FALSE)
    IN  IF /\ units[this].typeId = "TYPEID_UNIT"
           /\ units[unit].typeId = "TYPEID_PLAYER"
           /\ HasPlayerFlag(unit, {"GHOST"})
           /\ ~units[this].visibleToGhosts
        THEN FALSE
        ELSE IF HasFlag(unit, AttackBlockMask) THEN FALSE
        ELSE IF thisPlayerControlled /\ HasFlag(unit, {"IMMUNE_TO_PLAYER"}) THEN FALSE
        ELSE IF ~thisPlayerControlled /\ HasFlag(unit, {"IMMUNE_TO_NPC"}) THEN FALSE
        ELSE IF unitPlayerControlled /\ HasFlag(this, {"IMMUNE_TO_PLAYER"}) THEN FALSE
        ELSE IF ~unitPlayerControlled /\ HasFlag(this, {"IMMUNE_TO_NPC"}) THEN FALSE
        ELSE IF thisPlayerControlled /\ unitPlayerControlled
        THEN IF Unit_IsFriend(this, unit) THEN FALSE
             ELSE IF thisPlayer = 0 THEN TRUE
             ELSE IF unitPlayer = 0 THEN TRUE
             ELSE IF SameDuel(thisPlayer, unitPlayer) THEN TRUE
             ELSE IF units[unitPlayer].pvp THEN TRUE
             ELSE IF units[thisPlayer].ffa /\ units[unitPlayer].ffa THEN TRUE
             ELSE FALSE
        ELSE IF thisPlayerControlled \/ unitPlayerControlled
        THEN ~Unit_IsFriend(this, unit)
        ELSE Unit_IsEnemy(this, unit) /\ Unit_IsEnemy(unit, this)

\* lines 351-417
Unit_CanAttack(this, unit) ==
    LET thisPlayerControlled == HasFlag(this, {"PLAYER_CONTROLLED"})
        unitPlayerControlled == HasFlag(unit, {"PLAYER_CONTROLLED"})
        thisPlayer == GetControllingPlayer(this, FALSE)
        unitPlayer == GetControllingPlayer(unit, FALSE)
    IN  IF /\ units[this].typeId = "TYPEID_UNIT"
           /\ units[unit].typeId = "TYPEID_PLAYER"
           /\ HasPlayerFlag(unit, {"GHOST"})
           /\ ~units[this].visibleToGhosts
        THEN FALSE
        ELSE IF HasFlag(unit, AttackBlockMask) THEN FALSE
        ELSE IF thisPlayerControlled /\ HasFlag(unit, {"IMMUNE_TO_PLAYER"}) THEN FALSE
        ELSE IF ~thisPlayerControlled /\ HasFlag(unit, {"IMMUNE_TO_NPC"}) THEN FALSE
        ELSE IF unitPlayerControlled /\ HasFlag(this, {"IMMUNE_TO_PLAYER"}) THEN FALSE
        ELSE IF ~unitPlayerControlled /\ HasFlag(this, {"IMMUNE_TO_NPC"}) THEN FALSE
        ELSE IF thisPlayerControlled /\ unitPlayerControlled
        THEN IF Unit_IsFriend(this, unit) THEN FALSE
             ELSE IF thisPlayer = 0 THEN TRUE
             ELSE IF unitPlayer = 0 THEN TRUE
             ELSE IF SameDuel(thisPlayer, unitPlayer) THEN TRUE
             ELSE IF units[unitPlayer].pvp THEN TRUE
             ELSE IF units[thisPlayer].ffa /\ units[unitPlayer].ffa THEN TRUE
             ELSE FALSE
        ELSE IF thisPlayerControlled \/ unitPlayerControlled
        THEN ~Unit_IsFriend(this, unit)
        ELSE Unit_IsEnemy(this, unit) \/ Unit_IsEnemy(unit, this)

\* lines 428-446
Unit_CanAttackNow(this, unit) ==
    IF ~units[this].alive THEN FALSE
    ELSE IF units[this].mounted THEN FALSE
    ELSE IF ~units[unit].alive THEN FALSE
    ELSE Unit_CanAttack(this, unit)

\* lines 1144-1162
Unit_CanAttackOnSight(this, target) ==
    IF units[target].evadingHome THEN FALSE
    ELSE IF ~units[this].ignoringFeignDeath /\ units[target].feigningDeath THEN FALSE
    ELSE IF /\ units[target].typeId = "TYPEID_UNIT"
            /\ units[target].pet
            /\ units[target].petModeDisabled
    THEN FALSE
    ELSE Unit_CanAttack(this, target) /\ Unit_IsEnemy(this, target)

\* lines 1446-1463
Unit_CanJoinInAttacking(this, enemy) ==
    IF ~units[this].canEnterCombat THEN FALSE
    ELSE IF ~units[this].canInitiateAttack THEN FALSE
    ELSE IF units[this].feigningDeath THEN FALSE
    ELSE IF units[this].unattackableAura THEN FALSE
    ELSE Unit_CanAttack(this, enemy)

\* mutant: the flags of the target are not tested
Unit_CanAttackServerside_NoTargetFlags(this, unit, ignoreFlagsSource, ignoreFlagsTarget) ==
    LET thisPlayerControlled == HasFlag(this, {"PLAYER_CONTROLLED"})
        unitPlayerControlled == HasFlag(unit, {"PLAYER_CONTROLLED"})
    IN  IF thisPlayerControlled \/ unitPlayerControlled
        THEN ~Unit_IsFriend(this, unit)
        ELSE Unit_IsEnemy(this, unit) \/ Unit_IsEnemy(unit, this)

\* lines 1206-1279: CanAttack with the immunity tests switched off by the spell
Unit_CanAttackServerside(this, unit, ignoreFlagsSource, ignoreFlagsTarget) ==
    LET thisPlayerControlled == HasFlag(this, {"PLAYER_CONTROLLED"})
        unitPlayerControlled == HasFlag(unit, {"PLAYER_CONTROLLED"})
        thisPlayer == GetControllingPlayer(this, FALSE)
        unitPlayer == GetControllingPlayer(unit, FALSE)
    IN  IF /\ units[this].typeId = "TYPEID_UNIT"
           /\ units[unit].typeId = "TYPEID_PLAYER"
           /\ HasPlayerFlag(unit, {"GHOST"})
           /\ ~units[this].visibleToGhosts
        THEN FALSE
        ELSE IF HasFlag(unit, AttackBlockMask) THEN FALSE
        ELSE IF ~ignoreFlagsTarget /\ thisPlayerControlled
                /\ HasFlag(unit, {"IMMUNE_TO_PLAYER"}) THEN FALSE
        ELSE IF ~ignoreFlagsTarget /\ ~thisPlayerControlled
                /\ HasFlag(unit, {"IMMUNE_TO_NPC"}) THEN FALSE
        ELSE IF ~ignoreFlagsSource /\ unitPlayerControlled
                /\ HasFlag(this, {"IMMUNE_TO_PLAYER"}) THEN FALSE
        ELSE IF ~ignoreFlagsSource /\ ~unitPlayerControlled
                /\ HasFlag(this, {"IMMUNE_TO_NPC"}) THEN FALSE
        ELSE IF thisPlayerControlled /\ unitPlayerControlled
        THEN IF Unit_IsFriend(this, unit) THEN FALSE
             ELSE IF thisPlayer = 0 THEN TRUE
             ELSE IF unitPlayer = 0 THEN TRUE
             ELSE IF SameDuel(thisPlayer, unitPlayer) THEN TRUE
             ELSE IF units[unitPlayer].pvp THEN TRUE
             ELSE IF units[thisPlayer].ffa /\ units[unitPlayer].ffa THEN TRUE
             ELSE FALSE
        ELSE IF thisPlayerControlled \/ unitPlayerControlled
        THEN ~Unit_IsFriend(this, unit)
        ELSE Unit_IsEnemy(this, unit) \/ Unit_IsEnemy(unit, this)

\* lines 1172-1196: the at-war carve-out for a player controlled target that
\* the attacker sees as friend
Unit_CanAttackInCombat(this, target, ignoreFlagsSource, ignoreFlagsTarget) ==
    LET unitPlayer == GetControllingPlayer(target, FALSE)
        thisFactionTemplate == GetFactionTemplateEntry(this)
    IN  IF Unit_CanAttackServerside(this, target, ignoreFlagsSource, ignoreFlagsTarget)
        THEN TRUE
        ELSE /\ IsPlayerControlled(target)
             /\ Unit_IsFriend(this, target)
             /\ unitPlayer # 0
             /\ thisFactionTemplate # 0
             /\ FactionHasReputation(tpl[thisFactionTemplate].faction)
             /\ IsAtWar(unitPlayer, tpl[thisFactionTemplate].faction)

\* a null SpellEntry pointer
NoSpell == [present |-> FALSE, allowDeadTarget |-> FALSE, ignoreRestrictions |-> FALSE]

\* SpellEntry: SPELL_ATTR_EX2_ALLOW_DEAD_TARGET and
\* SPELL_ATTR_EX3_IGNORE_CASTER_AND_TARGET_RESTRICTIONS
Spells ==
    {NoSpell} \cup [present : {TRUE}, allowDeadTarget : BOOLEAN, ignoreRestrictions : BOOLEAN]

\* mutant: an AOE between players of different PvP state always passes
Unit_CanAttackSpell_NoAOECheck(this, target, spellInfo, isAOE) ==
    LET ignoreFlags == spellInfo.present /\ spellInfo.ignoreRestrictions
        thisPlayer == GetControllingPlayer(this, FALSE)
        unitPlayer == GetControllingPlayer(target, FALSE)
        thisFactionTemplate == GetFactionTemplateEntry(this)
    IN  IF spellInfo.present /\ ~units[target].alive /\ ~spellInfo.allowDeadTarget
        THEN FALSE
        ELSE IF ~Unit_CanAttackInCombat(this, target, ignoreFlags, ignoreFlags) THEN FALSE
        ELSE IF ~HasFlag(target, {"PLAYER_CONTROLLED"}) THEN TRUE
        ELSE IF HasFlag(this, {"PLAYER_CONTROLLED"})
        THEN IF /\ isAOE
                /\ thisPlayer # 0
                /\ unitPlayer # 0
                /\ ~IsInDuelWith(thisPlayer, unitPlayer)
                /\ units[thisPlayer].pvp # units[unitPlayer].pvp
             THEN TRUE
             ELSE TRUE
        ELSE IF /\ ~Unit_IsEnemy(this, target)
                /\ unitPlayer # 0
                /\ thisFactionTemplate # 0
                /\ FactionHasReputation(tpl[thisFactionTemplate].faction)
             THEN IsAtWar(unitPlayer, tpl[thisFactionTemplate].faction)
             ELSE TRUE

\* mutant: a non-enemy player target passes whatever its at-war state
Unit_CanAttackSpell_NoAtWarCheck(this, target, spellInfo, isAOE) ==
    LET ignoreFlags == spellInfo.present /\ spellInfo.ignoreRestrictions
        thisPlayer == GetControllingPlayer(this, FALSE)
        unitPlayer == GetControllingPlayer(target, FALSE)
        thisFactionTemplate == GetFactionTemplateEntry(this)
    IN  IF spellInfo.present /\ ~units[target].alive /\ ~spellInfo.allowDeadTarget
        THEN FALSE
        ELSE IF ~Unit_CanAttackInCombat(this, target, ignoreFlags, ignoreFlags) THEN FALSE
        ELSE IF ~HasFlag(target, {"PLAYER_CONTROLLED"}) THEN TRUE
        ELSE IF HasFlag(this, {"PLAYER_CONTROLLED"})
        THEN IF /\ isAOE
                /\ thisPlayer # 0
                /\ unitPlayer # 0
                /\ ~IsInDuelWith(thisPlayer, unitPlayer)
                /\ units[thisPlayer].pvp # units[unitPlayer].pvp
             THEN units[thisPlayer].ffa /\ units[unitPlayer].ffa
             ELSE TRUE
        ELSE IF /\ ~Unit_IsEnemy(this, target)
                /\ unitPlayer # 0
                /\ thisFactionTemplate # 0
                /\ FactionHasReputation(tpl[thisFactionTemplate].faction)
             THEN TRUE
             ELSE TRUE

\* lines 1065-1121
Unit_CanAttackSpell(this, target, spellInfo, isAOE) ==
    LET ignoreFlags == spellInfo.present /\ spellInfo.ignoreRestrictions
        thisPlayer == GetControllingPlayer(this, FALSE)
        unitPlayer == GetControllingPlayer(target, FALSE)
        thisFactionTemplate == GetFactionTemplateEntry(this)
    IN  IF spellInfo.present /\ ~units[target].alive /\ ~spellInfo.allowDeadTarget
        THEN FALSE
        ELSE IF ~Unit_CanAttackInCombat(this, target, ignoreFlags, ignoreFlags) THEN FALSE
        ELSE IF ~HasFlag(target, {"PLAYER_CONTROLLED"}) THEN TRUE
        ELSE IF HasFlag(this, {"PLAYER_CONTROLLED"})
        THEN IF /\ isAOE
                /\ thisPlayer # 0
                /\ unitPlayer # 0
                /\ ~IsInDuelWith(thisPlayer, unitPlayer)
                /\ units[thisPlayer].pvp # units[unitPlayer].pvp
             THEN units[thisPlayer].ffa /\ units[unitPlayer].ffa
             ELSE TRUE
        ELSE IF /\ ~Unit_IsEnemy(this, target)
                /\ unitPlayer # 0
                /\ thisFactionTemplate # 0
                /\ FactionHasReputation(tpl[thisFactionTemplate].faction)
             THEN IsAtWar(unitPlayer, tpl[thisFactionTemplate].faction)
             ELSE TRUE

\* lines 474-483: isPvPUI
IsPvPUI(self) ==
    IF GetMaster(self) # 0
    THEN IF HasFlag(self, {"IMMUNE_TO_PLAYER"}) THEN FALSE ELSE units[GetMaster(self)].pvp
    ELSE units[self].pvp

\* mutant: the free-for-all test is left out
Unit_CanAssist_NoFFACheck(this, unit) ==
    LET thisPlayer == GetControllingPlayer(this, FALSE)
        unitPlayer == GetControllingPlayer(unit, FALSE)
    IN  IF HasFlag(unit, {"UNINTERACTIBLE"}) THEN FALSE
        ELSE IF Unit_GetReactionTo(this, unit) < REP_FRIENDLY THEN FALSE
        ELSE IF HasFlag(unit, {"PLAYER_CONTROLLED"})
        THEN IF thisPlayer # 0 /\ unitPlayer # 0
             THEN IF \/ units[thisPlayer].duelArbiter # units[unitPlayer].duelArbiter
                     \/ units[thisPlayer].duelTeam # units[unitPlayer].duelTeam
                  THEN FALSE
                  ELSE TRUE
             ELSE TRUE
        ELSE IF ~HasFlag(this, {"PLAYER_CONTROLLED"}) THEN TRUE
        ELSE IsPvPUI(unit)

\* lines 458-511
Unit_CanAssist(this, unit) ==
    LET thisPlayer == GetControllingPlayer(this, FALSE)
        unitPlayer == GetControllingPlayer(unit, FALSE)
    IN  IF HasFlag(unit, {"UNINTERACTIBLE"}) THEN FALSE
        ELSE IF Unit_GetReactionTo(this, unit) < REP_FRIENDLY THEN FALSE
        ELSE IF HasFlag(unit, {"PLAYER_CONTROLLED"})
        THEN IF thisPlayer # 0 /\ unitPlayer # 0
             THEN IF \/ units[thisPlayer].duelArbiter # units[unitPlayer].duelArbiter
                     \/ units[thisPlayer].duelTeam # units[unitPlayer].duelTeam
                  THEN FALSE
                  ELSE IF units[unitPlayer].ffa /\ ~units[thisPlayer].ffa THEN FALSE
                  ELSE TRUE
             ELSE TRUE
        ELSE IF ~HasFlag(this, {"PLAYER_CONTROLLED"}) THEN TRUE
        ELSE IsPvPUI(unit)

\* lines 1131-1134
Unit_CanAssistSpell(this, target, spellInfo) == Unit_CanAssist(this, target)

\* mutant: the faction group masks are not compared
Unit_CanCooperate_NoMaskCheck(this, unit) ==
    LET thisFactionTemplate == GetFactionTemplateEntry(this)
        unitFactionTemplate == GetFactionTemplateEntry(unit)
    IN  IF this = unit THEN FALSE
        ELSE IF GetCharmerGuid(this) # 0 \/ GetCharmerGuid(unit) # 0 THEN FALSE
        ELSE IF thisFactionTemplate # 0 /\ unitFactionTemplate # 0
        THEN ~Unit_CanAttack(this, unit)
        ELSE FALSE

\* lines 533-557
Unit_CanCooperate(this, unit) ==
    LET thisFactionTemplate == GetFactionTemplateEntry(this)
        unitFactionTemplate == GetFactionTemplateEntry(unit)
    IN  IF this = unit THEN FALSE
        ELSE IF GetCharmerGuid(this) # 0 \/ GetCharmerGuid(unit) # 0 THEN FALSE
        ELSE IF thisFactionTemplate # 0 /\ unitFactionTemplate # 0
                /\ tpl[thisFactionTemplate].factionGroupMask
                    = tpl[unitFactionTemplate].factionGroupMask
        THEN ~Unit_CanAttack(this, unit)
        ELSE FALSE

(***************************************************************************)
(* Tier 2                                                                  *)
(***************************************************************************)
WorldObject_GetReactionTo(this, unit) == REP_NEUTRAL

WorldObject_IsEnemy(this, unit) == FALSE

WorldObject_IsFriend(this, unit) == FALSE

GameObject_GetOwner(go) == GetUnit(gos[go].owner)

\* mutant: the game object answers from its own faction before its owner
GameObject_GetReactionTo_OwnFactionFirst(go, unit) ==
    LET owner == GameObject_GetOwner(go)
        factionTemplate == LookupTemplate(gos[go].faction)
    IN  IF gos[go].faction # 0 /\ factionTemplate # 0
        THEN GetFactionReaction_Unit(factionTemplate, unit)
        ELSE IF owner # 0 THEN Unit_GetReactionTo(owner, unit)
        ELSE REP_NEUTRAL

GameObject_GetReactionTo(go, unit) ==
    LET owner == GameObject_GetOwner(go)
        factionTemplate == LookupTemplate(gos[go].faction)
    IN  IF owner # 0 THEN Unit_GetReactionTo(owner, unit)
        ELSE IF gos[go].faction # 0 /\ factionTemplate # 0
        THEN GetFactionReaction_Unit(factionTemplate, unit)
        ELSE REP_NEUTRAL

\* mutant: an ownerless game object counts Unfriendly as enemy
GameObject_IsEnemy_BelowNeutral(go, unit) ==
    LET owner == GameObject_GetOwner(go)
        factionTemplate == LookupTemplate(gos[go].faction)
    IN  IF owner # 0 THEN Unit_IsEnemy(owner, unit)
        ELSE IF gos[go].faction # 0 /\ factionTemplate # 0
        THEN GetFactionReaction_Unit(factionTemplate, unit) < REP_NEUTRAL
        ELSE FALSE

GameObject_IsEnemy(go, unit) ==
    LET owner == GameObject_GetOwner(go)
        factionTemplate == LookupTemplate(gos[go].faction)
    IN  IF owner # 0 THEN Unit_IsEnemy(owner, unit)
        ELSE IF gos[go].faction # 0 /\ factionTemplate # 0
        THEN GetFactionReaction_Unit(factionTemplate, unit) < REP_UNFRIENDLY
        ELSE FALSE

GameObject_IsFriend(go, unit) ==
    LET owner == GameObject_GetOwner(go)
        factionTemplate == LookupTemplate(gos[go].faction)
    IN  IF owner # 0 THEN Unit_IsFriend(owner, unit)
        ELSE IF gos[go].faction # 0 /\ factionTemplate # 0
        THEN GetFactionReaction_Unit(factionTemplate, unit) > REP_NEUTRAL
        ELSE FALSE

DynamicObject_GetCaster(dyn) == GetUnit(dyns[dyn].caster)

DynamicObject_GetReactionTo(dyn, unit) ==
    LET caster == DynamicObject_GetCaster(dyn)
    IN  IF caster # 0 THEN Unit_GetReactionTo(caster, unit) ELSE REP_NEUTRAL

DynamicObject_IsEnemy(dyn, unit) ==
    LET caster == DynamicObject_GetCaster(dyn)
    IN  IF caster # 0 THEN Unit_IsEnemy(caster, unit) ELSE FALSE

DynamicObject_IsFriend(dyn, unit) ==
    LET caster == DynamicObject_GetCaster(dyn)
    IN  IF caster # 0 THEN Unit_IsFriend(caster, unit) ELSE FALSE

\* lines 908-917
Creature_IsInGroup(this, other, party, ignoreCharms) ==
    IF HasFlag(this, {"PLAYER_CONTROLLED"}) \/ HasFlag(other, {"PLAYER_CONTROLLED"})
    THEN Unit_IsInGroup(this, other, party, ignoreCharms)
    ELSE Unit_IsFriend(this, other)

\* IsInGroup as called on a Unit: the override of the unit's class
IsInGroup(this, other, party, ignoreCharms) ==
    IF units[this].typeId = "TYPEID_PLAYER"
    THEN Player_IsInGroup(this, other, party, ignoreCharms)
    ELSE Creature_IsInGroup(this, other, party, ignoreCharms)

\* the faction templates "Alliance Generic" and "Horde Generic"
AllianceGeneric == 1054

HordeGeneric == 1495

\* lines 953-971
Player_GetReactionTo_Corpse(this, corpse) ==
    LET corpseOwner == GetPlayer(corpses[corpse].owner)
        id == IF units[this].team = "ALLIANCE" THEN AllianceGeneric ELSE HordeGeneric
    IN  IF /\ corpseOwner # 0
           /\ this # corpseOwner
           /\ units[this].team # units[corpseOwner].team
           /\ config.allowTwoSideInteractionGroup
           /\ Player_IsInGroup(this, corpseOwner, FALSE, FALSE)
        THEN GetFactionReaction_Template(GetFactionTemplateEntry(this), LookupTemplate(id))
        ELSE Unit_GetReactionTo_Corpse(this, corpse)

(***************************************************************************)
(* Tier 3                                                                  *)
(***************************************************************************)
\* lines 983-991
DynamicObject_CanAttackSpell(dyn, target, spellInfo, isAOE) ==
    LET owner == DynamicObject_GetCaster(dyn)
    IN  IF owner # 0 THEN Unit_CanAttackSpell(owner, target, spellInfo, isAOE) ELSE FALSE

\* lines 1001-1009: the caster is asked CanAttackSpell, isAOE at its default
DynamicObject_CanAssistSpell(dyn, target, spellInfo) ==
    LET owner == DynamicObject_GetCaster(dyn)
    IN  IF owner # 0 THEN Unit_CanAttackSpell(owner, target, spellInfo, FALSE) ELSE FALSE

\* lines 1389-1409
Unit_IsInTeam(this, other, ignoreCharms) ==
    LET thisPlayer == GetControllingPlayer(this, ignoreCharms)
        otherPlayer == GetControllingPlayer(other, ignoreCharms)
    IN  IF this = other THEN TRUE
        ELSE IF /\ HasFlag(this, {"PLAYER_CONTROLLED"})
                /\ HasFlag(other, {"PLAYER_CONTROLLED"})
                /\ thisPlayer # 0
                /\ otherPlayer # 0
        THEN thisPlayer = otherPlayer \/ units[thisPlayer].team = units[otherPlayer].team
        ELSE FALSE

\* lines 586-606
Unit_CanInteract(this, unit) ==
    IF HasFlag(unit, {"UNINTERACTIBLE"}) THEN FALSE
    ELSE IF units[unit].npcFlags = {} THEN FALSE
    ELSE IF /\ units[this].typeId = "TYPEID_PLAYER"
            /\ HasPlayerFlag(this, {"GHOST"})
            /\ (units[unit].typeId # "TYPEID_UNIT" \/ ~units[unit].visibleToGhosts)
    THEN FALSE
    ELSE /\ Unit_GetReactionTo(this, unit) > REP_UNFRIENDLY
         /\ Unit_GetReactionTo(unit, this) > REP_UNFRIENDLY

\* sSpellShapeshiftFormStore: form 1 forbids talking to NPCs, form 2 allows it;
\* form 3 has no entry
ShapeshiftForms == (1 :> [canNpcInteract |-> FALSE]) @@ (2 :> [canNpcInteract |-> TRUE])

\* Unit::IsShapeShifted: the unit is in a form other than FORM_NONE
IsShapeShifted(this) == units[this].shapeshiftForm # 0

\* what the cast of line 648 can read
CastReads == {"set", "clear", "fault"}

\* line 648: static_cast<const Creature*>(unit)->GetCreatureInfo()->HasFlag(
\* INTERACT_WHILE_DEAD).  On a creature it reads the creature's flag.  On a
\* player the cast is undefined behaviour: it reads memory that is no creature
\* info, and finds the bit set or clear, or faults.
InteractWhileDeadRead(unit, read) ==
    IF units[unit].typeId = "TYPEID_UNIT"
    THEN IF units[unit].interactWhileDead THEN "set" ELSE "clear"
    ELSE read

\* lines 645-650: the call reaches the cast of line 648 and the read faults
Unit_CanInteractNow_Faults(this, unit, read) ==
    /\ ~HasFlag(this, {"TAXI_FLIGHT"})
    /\ units[this].charmer = 0
    /\ units[this].alive
    /\ ~(/\ IsShapeShifted(this)
         /\ units[this].shapeshiftForm \in DOMAIN ShapeshiftForms
         /\ ~ShapeshiftForms[units[this].shapeshiftForm].canNpcInteract)
    /\ ~units[unit].alive
    /\ units[this].typeId = "TYPEID_UNIT"
    /\ InteractWhileDeadRead(unit, read) = "fault"

\* lines 617-661, for a call that does not fault
Unit_CanInteractNow(this, unit, read) ==
    IF HasFlag(this, {"TAXI_FLIGHT"}) THEN FALSE
    ELSE IF units[this].charmer # 0 THEN FALSE
    ELSE IF /\ ~units[this].alive
            /\ (units[this].typeId = "TYPEID_UNIT" \/ ~HasPlayerFlag(this, {"GHOST"}))
    THEN FALSE
    ELSE IF /\ IsShapeShifted(this)
            /\ units[this].shapeshiftForm \in DOMAIN ShapeshiftForms
            /\ ~ShapeshiftForms[units[this].shapeshiftForm].canNpcInteract
    THEN FALSE
    ELSE IF /\ ~units[unit].alive
            /\ (units[this].typeId # "TYPEID_UNIT" \/ InteractWhileDeadRead(unit, read) # "set")
    THEN FALSE
    ELSE IF units[unit].charmer # 0 THEN FALSE
    ELSE IF HasFlag(unit, {"PET_IN_COMBAT"}) \/ units[unit].victim # 0 THEN FALSE
    ELSE Unit_CanInteract(this, unit)

\* lines 1360-1380; a player of no guild has the guild id 0
Unit_IsInGuild(this, other, ignoreCharms) ==
    LET thisPlayer == GetControllingPlayer(this, ignoreCharms)
        otherPlayer == GetControllingPlayer(other, ignoreCharms)
    IN  IF this = other THEN TRUE
        ELSE IF /\ HasFlag(this, {"PLAYER_CONTROLLED"})
                /\ HasFlag(other, {"PLAYER_CONTROLLED"})
                /\ thisPlayer # 0
                /\ otherPlayer # 0
        THEN thisPlayer = otherPlayer \/ units[thisPlayer].guildId = units[otherPlayer].guildId
        ELSE FALSE

\* the ignoreCharms argument of the IsInTeam(other) calls
IsInTeam_ignoreCharms == FALSE

IsGameMaster(other) == units[other].typeId = "TYPEID_PLAYER" /\ units[other].gameMaster

\* lines 1289-1302
Unit_IsFogOfWarVisibleStealth(this, other) ==
    IF IsGameMaster(other) THEN TRUE
    ELSE IF config.fogOfWarStealth = 1 THEN Unit_CanCooperate(this, other)
    ELSE IsInGroup(this, other, FALSE, FALSE)

\* mutant: the game master test is left out
Unit_IsFogOfWarVisibleHealth_NoGameMaster(this, other) ==
    IF config.fogOfWarHealth = 1 THEN Unit_IsInTeam(this, other, IsInTeam_ignoreCharms)
    ELSE IF config.fogOfWarHealth = 2 THEN TRUE
    ELSE IsInGroup(this, other, FALSE, TRUE)

\* lines 1312-1326
Unit_IsFogOfWarVisibleHealth(this, other) ==
    IF IsGameMaster(other) THEN TRUE
    ELSE IF config.fogOfWarHealth = 1 THEN Unit_IsInTeam(this, other, IsInTeam_ignoreCharms)
    ELSE IF config.fogOfWarHealth = 2 THEN TRUE
    ELSE IsInGroup(this, other, FALSE, TRUE)

\* mutant: a value that is not recognised shows the stats like mode 2
Unit_IsFogOfWarVisibleStats_DefaultShows(this, other) ==
    IF IsGameMaster(other) THEN TRUE
    ELSE IF config.fogOfWarStats = 1 THEN Unit_IsInTeam(this, other, IsInTeam_ignoreCharms)
    ELSE IF config.fogOfWarStats = 0
    THEN this = other \/ units[this].summoner = other
    ELSE TRUE

\* lines 1336-1350
Unit_IsFogOfWarVisibleStats(this, other) ==
    IF IsGameMaster(other) THEN TRUE
    ELSE IF config.fogOfWarStats = 1 THEN Unit_IsInTeam(this, other, IsInTeam_ignoreCharms)
    ELSE IF config.fogOfWarStats = 2 THEN TRUE
    ELSE this = other \/ units[this].summoner = other

(***************************************************************************)
(* The calls.  Each action is one call of one function on entities of the  *)
(* world; it changes nothing but the record of the last call.              *)
(***************************************************************************)
Call(op, a, b, res) ==
    /\ last' = [op |-> op, a |-> a, b |-> b, res |-> res]
    /\ UNCHANGED <<tpl, fac, units, gos, dyns, corpses, config>>

\* a call with a spell and an AOE argument
CallSpell(op, a, b, spellInfo, isAOE, res) ==
    /\ last' = [op |-> op, a |-> a, b |-> b, res |-> res,
                spellInfo |-> spellInfo, isAOE |-> isAOE]
    /\ UNCHANGED <<tpl, fac, units, gos, dyns, corpses, config>>

CallUnit_CanAttackSpell ==
    \E a \in DOMAIN units, b \in DOMAIN units, spellInfo \in Spells, isAOE \in BOOLEAN :
        CallSpell("Unit_CanAttackSpell", a, b, spellInfo, isAOE,
                  Unit_CanAttackSpell(a, b, spellInfo, isAOE))

CallDynamicObject_CanAttackSpell ==
    \E d \in DOMAIN dyns, b \in DOMAIN units, spellInfo \in Spells, isAOE \in BOOLEAN :
        CallSpell("DynamicObject_CanAttackSpell", d, b, spellInfo, isAOE,
                  DynamicObject_CanAttackSpell(d, b, spellInfo, isAOE))

CallDynamicObject_CanAssistSpell ==
    \E d \in DOMAIN dyns, b \in DOMAIN units, spellInfo \in Spells :
        CallSpell("DynamicObject_CanAssistSpell", d, b, spellInfo, FALSE,
                  DynamicObject_CanAssistSpell(d, b, spellInfo))

CallUnit_IsFogOfWarVisibleStealth ==
    \E a \in DOMAIN units, b \in DOMAIN units :
        Call("Unit_IsFogOfWarVisibleStealth", a, b, Unit_IsFogOfWarVisibleStealth(a, b))

CallUnit_IsFogOfWarVisibleHealth ==
    \E a \in DOMAIN units, b \in DOMAIN units :
        Call("Unit_IsFogOfWarVisibleHealth", a, b, Unit_IsFogOfWarVisibleHealth(a, b))

CallUnit_IsFogOfWarVisibleStats ==
    \E a \in DOMAIN units, b \in DOMAIN units :
        Call("Unit_IsFogOfWarVisibleStats", a, b, Unit_IsFogOfWarVisibleStats(a, b))

CallUnit_GetReactionTo_Corpse ==
    \E a \in DOMAIN units, c \in DOMAIN corpses :
        Call("Unit_GetReactionTo_Corpse", a, c, Unit_GetReactionTo_Corpse(a, c))

CallPlayer_GetReactionTo_Corpse ==
    \E a \in DOMAIN units, c \in DOMAIN corpses :
        /\ units[a].typeId = "TYPEID_PLAYER"
        /\ Call("Player_GetReactionTo_Corpse", a, c, Player_GetReactionTo_Corpse(a, c))

CallUnit_CanAttackNow ==
    \E a \in DOMAIN units, b \in DOMAIN units :
        Call("Unit_CanAttackNow", a, b, Unit_CanAttackNow(a, b))

CallUnit_CanAttackOnSight ==
    \E a \in DOMAIN units, b \in DOMAIN units :
        Call("Unit_CanAttackOnSight", a, b, Unit_CanAttackOnSight(a, b))

CallUnit_CanJoinInAttacking ==
    \E a \in DOMAIN units, b \in DOMAIN units :
        Call("Unit_CanJoinInAttacking", a, b, Unit_CanJoinInAttacking(a, b))

\* a call with the switch that looks past charms
CallCharms(op, a, b, ignoreCharms, res) ==
    /\ last' = [op |-> op, a |-> a, b |-> b, res |-> res, ignoreCharms |-> ignoreCharms]
    /\ UNCHANGED <<tpl, fac, units, gos, dyns, corpses, config>>

CallUnit_IsInGuild ==
    \E a \in DOMAIN units, b \in DOMAIN units, ignoreCharms \in BOOLEAN :
        CallCharms("Unit_IsInGuild", a, b, ignoreCharms, Unit_IsInGuild(a, b, ignoreCharms))

CallUnit_IsInTeam ==
    \E a \in DOMAIN units, b \in DOMAIN units, ignoreCharms \in BOOLEAN :
        CallCharms("Unit_IsInTeam", a, b, ignoreCharms, Unit_IsInTeam(a, b, ignoreCharms))

CallUnit_CanInteract ==
    \E a \in DOMAIN units, b \in DOMAIN units :
        Call("Unit_CanInteract", a, b, Unit_CanInteract(a, b))

\* a call of CanInteractNow: it returns a value, or it faults and returns none
CallUnit_CanInteractNow ==
    \E a \in DOMAIN units, b \in DOMAIN units, read \in CastReads :
        /\ last' = IF Unit_CanInteractNow_Faults(a, b, read)
                   THEN [op |-> "Unit_CanInteractNow", a |-> a, b |-> b, fault |-> TRUE]
                   ELSE [op |-> "Unit_CanInteractNow", a |-> a, b |-> b, fault |-> FALSE,
                         res |-> Unit_CanInteractNow(a, b, read)]
        /\ UNCHANGED <<tpl, fac, units, gos, dyns, corpses, config>>

\* a call with the two switches of the spell path
CallFlags(op, a, b, ignoreFlagsSource, ignoreFlagsTarget, res) ==
    /\ last' = [op |-> op, a |-> a, b |-> b, res |-> res,
                ignoreFlagsSource |-> ignoreFlagsSource,
                ignoreFlagsTarget |-> ignoreFlagsTarget]
    /\ UNCHANGED <<tpl, fac, units, gos, dyns, corpses, config>>

CallUnit_CanAttackServerside ==
    \E a \in DOMAIN units, b \in DOMAIN units, s \in BOOLEAN, t \in BOOLEAN :
        CallFlags("Unit_CanAttackServerside", a, b, s, t, Unit_CanAttackServerside(a, b, s, t))

CallUnit_CanAttackInCombat ==
    \E a \in DOMAIN units, b \in DOMAIN units, s \in BOOLEAN, t \in BOOLEAN :
        CallFlags("Unit_CanAttackInCombat", a, b, s, t, Unit_CanAttackInCombat(a, b, s, t))

CallUnit_CanAssist ==
    \E a \in DOMAIN units, b \in DOMAIN units :
        Call("Unit_CanAssist", a, b, Unit_CanAssist(a, b))

CallUnit_CanCooperate ==
    \E a \in DOMAIN units, b \in DOMAIN units :
        Call("Unit_CanCooperate", a, b, Unit_CanCooperate(a, b))

CallGetFactionReaction_Template ==
    \E a \in DOMAIN tpl, b \in DOMAIN tpl :
        Call("GetFactionReaction_Template", a, b, GetFactionReaction_Template(a, b))

CallGetFactionReaction_Unit ==
    \E t \in DOMAIN tpl \cup {0}, u \in DOMAIN units :
        Call("GetFactionReaction_Unit", t, u, GetFactionReaction_Unit(t, u))

CallUnit_GetReactionTo ==
    \E a \in DOMAIN units, b \in DOMAIN units :
        Call("Unit_GetReactionTo", a, b, Unit_GetReactionTo(a, b))

CallUnit_IsEnemy ==
    \E a \in DOMAIN units, b \in DOMAIN units :
        Call("Unit_IsEnemy", a, b, Unit_IsEnemy(a, b))

CallUnit_IsFriend ==
    \E a \in DOMAIN units, b \in DOMAIN units :
        Call("Unit_IsFriend", a, b, Unit_IsFriend(a, b))

CallUnit_CanAttack ==
    \E a \in DOMAIN units, b \in DOMAIN units :
        Call("Unit_CanAttack", a, b, Unit_CanAttack(a, b))

CallGameObject_GetReactionTo ==
    \E g \in DOMAIN gos, b \in DOMAIN units :
        Call("GameObject_GetReactionTo", g, b, GameObject_GetReactionTo(g, b))

CallDynamicObject_GetReactionTo ==
    \E d \in DOMAIN dyns, b \in DOMAIN units :
        Call("DynamicObject_GetReactionTo", d, b, DynamicObject_GetReactionTo(d, b))

CallGameObject_IsEnemy ==
    \E g \in DOMAIN gos, b \in DOMAIN units :
        Call("GameObject_IsEnemy", g, b, GameObject_IsEnemy(g, b))

CallGameObject_IsFriend ==
    \E g \in DOMAIN gos, b \in DOMAIN units :
        Call("GameObject_IsFriend", g, b, GameObject_IsFriend(g, b))

CallDynamicObject_IsEnemy ==
    \E d \in DOMAIN dyns, b \in DOMAIN units :
        Call("DynamicObject_IsEnemy", d, b, DynamicObject_IsEnemy(d, b))

CallDynamicObject_IsFriend ==
    \E d \in DOMAIN dyns, b \in DOMAIN units :
        Call("DynamicObject_IsFriend", d, b, DynamicObject_IsFriend(d, b))

CallWorldObject_IsEnemy ==
    \E b \in DOMAIN units :
        Call("WorldObject_IsEnemy", 0, b, WorldObject_IsEnemy(0, b))

CallWorldObject_IsFriend ==
    \E b \in DOMAIN units :
        Call("WorldObject_IsFriend", 0, b, WorldObject_IsFriend(0, b))

(***************************************************************************)
(* The indirections in steps.  A frame is the record of a call in flight:  *)
(* pc is the position in the function, at the entity the call has moved    *)
(* to, hops the number of master, owner or caster links followed so far.   *)
(***************************************************************************)
Frame(op, a, b, ignoreCharms) ==
    [op |-> op, a |-> a, b |-> b, ignoreCharms |-> ignoreCharms,
     pc |-> "enter", at |-> a, hops |-> 0, res |-> 0]

Return(f, res) == [f EXCEPT !.pc = "done", !.res = res]

Follow(f, pc, to) == [f EXCEPT !.pc = pc, !.at = to, !.hops = f.hops + 1]

\* lines 75-80 and 88-90: the getter, the guid and the lookup of the master
GetControllingPlayer_Enter(f) ==
    LET masterGuid == IF f.ignoreCharms THEN GetOwnerGuid(f.a) ELSE GetMasterGuid(f.a)
    IN  IF masterGuid # 0
        THEN IF GetUnit(masterGuid) # 0
             THEN Follow(f, "master", GetUnit(masterGuid))
             ELSE Return(f, 0)
        ELSE Return(f, IF units[f.a].typeId = "TYPEID_PLAYER" THEN f.a ELSE 0)

\* mutant: a master that is no player is asked for its own master
GetControllingPlayer_Master_WalksChain(f) ==
    IF units[f.at].typeId = "TYPEID_PLAYER" THEN Return(f, f.at)
    ELSE IF GetUnit(GetMasterGuid(f.at)) # 0
    THEN [f EXCEPT !.at = GetUnit(GetMasterGuid(f.at)),
                   !.hops = IF f.hops < 2 THEN f.hops + 1 ELSE f.hops]
    ELSE Return(f, 0)

\* lines 84-85: the master is the controlling player if it is a player
GetControllingPlayer_Master(f) ==
    Return(f, IF units[f.at].typeId = "TYPEID_PLAYER" THEN f.at ELSE 0)

\* lines 305-316: the owner, or the game object's own faction, or Neutral
GameObject_GetReactionTo_Enter(f) ==
    LET owner == GameObject_GetOwner(f.a)
        factionTemplate == LookupTemplate(gos[f.a].faction)
    IN  IF owner # 0 THEN Follow(f, "owner", owner)
        ELSE IF gos[f.a].faction # 0 /\ factionTemplate # 0
        THEN Return(f, GetFactionReaction_Unit(factionTemplate, f.b))
        ELSE Return(f, REP_NEUTRAL)

\* line 306: the answer of the owner, a unit
GameObject_GetReactionTo_Owner(f) == Return(f, Unit_GetReactionTo(f.at, f.b))

\* lines 859-862: the caster, or Neutral
DynamicObject_GetReactionTo_Enter(f) ==
    LET caster == DynamicObject_GetCaster(f.a)
    IN  IF caster # 0 THEN Follow(f, "owner", caster) ELSE Return(f, REP_NEUTRAL)

\* line 860: the answer of the caster, a unit
DynamicObject_GetReactionTo_Caster(f) == Return(f, Unit_GetReactionTo(f.at, f.b))

Step(f) ==
    /\ last' = f
    /\ UNCHANGED <<tpl, fac, units, gos, dyns, corpses, config>>

\* no call is in flight
Idle == IF last.op = "none" THEN TRUE ELSE last.pc = "done"

InFlight(op, pc) == last.op = op /\ last.pc = pc

BeginGetControllingPlayer ==
    /\ Idle
    /\ \E u \in DOMAIN units, ignoreCharms \in BOOLEAN :
            Step(Frame("GetControllingPlayer", u, 0, ignoreCharms))

EnterGetControllingPlayer ==
    /\ InFlight("GetControllingPlayer", "enter")
    /\ Step(GetControllingPlayer_Enter(last))

MasterGetControllingPlayer ==
    /\ InFlight("GetControllingPlayer", "master")
    /\ Step(GetControllingPlayer_Master(last))

BeginGameObject_GetReactionTo ==
    /\ Idle
    /\ \E g \in DOMAIN gos, b \in DOMAIN units :
            Step(Frame("GameObject_GetReactionTo_steps", g, b, FALSE))

EnterGameObject_GetReactionTo ==
    /\ InFlight("GameObject_GetReactionTo_steps", "enter")
    /\ Step(GameObject_GetReactionTo_Enter(last))

OwnerGameObject_GetReactionTo ==
    /\ InFlight("GameObject_GetReactionTo_steps", "owner")
    /\ Step(GameObject_GetReactionTo_Owner(last))

BeginDynamicObject_GetReactionTo ==
    /\ Idle
    /\ \E d \in DOMAIN dyns, b \in DOMAIN units :
            Step(Frame("DynamicObject_GetReactionTo_steps", d, b, FALSE))

EnterDynamicObject_GetReactionTo ==
    /\ InFlight("DynamicObject_GetReactionTo_steps", "enter")
    /\ Step(DynamicObject_GetReactionTo_Enter(last))

CasterDynamicObject_GetReactionTo ==
    /\ InFlight("DynamicObject_GetReactionTo_steps", "owner")
    /\ Step(DynamicObject_GetReactionTo_Caster(last))

(***************************************************************************)
(* The worlds.  The faction stores are loaded once at startup; the unit    *)
(* worlds use a store of five templates and the factions behind them.      *)
(***************************************************************************)
Template(faction, group, friend, enemy, enemies, friends, guard) ==
    [faction |-> faction, factionGroupMask |-> group, friendGroupMask |-> friend,
     enemyGroupMask |-> enemy, enemyFaction |-> Slots(enemies),
     friendFaction |-> Slots(friends), contestedGuard |-> guard]

\* 1 alliance player, 2 horde player, 3 neutral contested guard (reputation),
\* 4 monster hostile to players, 5 alliance guard (reputation)
WorldTemplates ==
    (1 :> Template(1, 3, 2, 4, <<>>, <<>>, FALSE)) @@
    (2 :> Template(2, 5, 4, 2, <<>>, <<>>, FALSE)) @@
    (3 :> Template(3, 0, 0, 0, <<>>, <<3>>, TRUE)) @@
    (4 :> Template(4, 8, 0, 1, <<>>, <<>>, FALSE)) @@
    (5 :> Template(5, 2, 2, 4, <<>>, <<>>, FALSE))

\* factions 3 and 5 track reputation, 1 and 2 do not, 4 has no FactionEntry
WorldFactions ==
    (1 :> [hasReputation |-> FALSE]) @@
    (2 :> [hasReputation |-> FALSE]) @@
    (3 :> [hasReputation |-> TRUE]) @@
    (5 :> [hasReputation |-> TRUE])

NoForced == [f \in {} |-> NoRank]

Creature ==
    [typeId |-> "TYPEID_UNIT", flags |-> {}, faction |-> 4, owner |-> 0, charmer |-> 0,
     persuaded |-> 0, playerFlags |-> {}, duelTeam |-> 0, duelArbiter |-> 0,
     group |-> 0, subGroup |-> 0, pvp |-> FALSE, ffa |-> FALSE,
     forced |-> NoForced, rank |-> [f \in {3, 5} |-> REP_NEUTRAL], atWar |-> {},
     visibleToGhosts |-> FALSE, alive |-> TRUE, duelOpponent |-> 0, gameMaster |-> FALSE,
     team |-> "NONE", summoner |-> 0, mounted |-> FALSE, evadingHome |-> FALSE,
     feigningDeath |-> FALSE, ignoringFeignDeath |-> FALSE, pet |-> FALSE,
     petModeDisabled |-> FALSE, canEnterCombat |-> TRUE, canInitiateAttack |-> TRUE,
     unattackableAura |-> FALSE, guildId |-> 0, npcFlags |-> {}, victim |-> 0,
     shapeshiftForm |-> 0, interactWhileDead |-> FALSE]

Player ==
    [typeId |-> "TYPEID_PLAYER", flags |-> {"PLAYER_CONTROLLED"}, faction |-> 1,
     team |-> "ALLIANCE"] @@ Creature

\* units 1 and 2 as drawn, every further unit a creature
World(u1, u2) == [i \in UnitIds |-> IF i = 1 THEN u1 ELSE IF i = 2 THEN u2 ELSE Creature]

NoObjects == [i \in {} |-> 0]

TypeIds == {"TYPEID_PLAYER", "TYPEID_UNIT"}

NoCall == [op |-> "none", a |-> 0, b |-> 0, res |-> 0]

\* the fog of war modes at 0, cross-faction grouping off
DefaultConfig ==
    [fogOfWarStealth |-> 0, fogOfWarHealth |-> 0, fogOfWarStats |-> 0,
     allowTwoSideInteractionGroup |-> FALSE]

FixedStores ==
    /\ tpl = WorldTemplates
    /\ fac = WorldFactions
    /\ corpses = NoObjects
    /\ config = DefaultConfig
    /\ last = NoCall

\* one unit in every state of its flags, faction, reputation and charm relations
InitSelf ==
    /\ FixedStores
    /\ gos = NoObjects
    /\ dyns = NoObjects
    /\ units \in
        {World(o @@ Player, Player) :
            o \in [typeId : TypeIds,
                   flags : SUBSET {"PLAYER_CONTROLLED", "PERSUADED"},
                   faction : {0, 1, 3, 4},
                   charmer : {0, 2, MissingGuid},
                   persuaded : {0, 1},
                   playerFlags : SUBSET {"CONTESTED_PVP"},
                   forced : {NoForced, 1 :> REP_HOSTILE},
                   atWar : SUBSET {3}]}

NoDuel == [duelTeam |-> 0, duelArbiter |-> 0]

Duel(team, arbiter) == [duelTeam |-> team, duelArbiter |-> arbiter]

\* two player controlled units, either of which may have no controlling player:
\* a creature without a master, or a master that is a creature or is not found
InitUnresolved ==
    /\ FixedStores
    /\ gos = NoObjects
    /\ dyns = NoObjects
    /\ units \in
        {World(o1 @@ d1 @@ Player, o2 @@ d2 @@ Player) :
            o1 \in [typeId : TypeIds,
                    charmer : {0, 3, MissingGuid},
                    flags : {{"PLAYER_CONTROLLED"}, {"PLAYER_CONTROLLED", "PERSUADED"}},
                    faction : {1, 4},
                    group : {0, 1},
                    ffa : BOOLEAN],
            d1 \in {NoDuel, Duel(1, 1)},
            o2 \in [typeId : TypeIds,
                    charmer : {0, 3},
                    group : {0, 1},
                    ffa : BOOLEAN],
            d2 \in {NoDuel, Duel(1, 1)}}

\* two players in every state of their groups, duels, free-for-all flags,
\* teams and charms
InitPlayers ==
    /\ FixedStores
    /\ gos = NoObjects
    /\ dyns = NoObjects
    /\ units \in
        {World(o1 @@ d1 @@ Player, o2 @@ d2 @@ Player) :
            o1 \in [flags : {{"PLAYER_CONTROLLED"}, {}},
                    charmer : {0, 3},
                    group : {0, 1},
                    ffa : BOOLEAN,
                    forced : {NoForced, 2 :> REP_HOSTILE}],
            d1 \in {NoDuel, Duel(1, 1), Duel(2, 1)},
            o2 \in [charmer : {0, 3},
                    faction : {1, 2},
                    group : {0, 1, 2},
                    ffa : BOOLEAN],
            d2 \in {NoDuel, Duel(1, 1), Duel(1, 2)}}

(***************************************************************************)
(* Spec: unit to unit reactions.                                           *)
(***************************************************************************)
Init == InitSelf \/ InitUnresolved \/ InitPlayers

Next == CallUnit_GetReactionTo

Spec == Init /\ [][Next]_vars

(***************************************************************************)
(* SpecTemplates: template to template reactions over drawn stores of two  *)
(* templates.  The lists may hold the id of a faction of neither template. *)
(* Template 2 has no enemies of its own: the call of 1 on 2 reads every    *)
(* field the function looks at.                                            *)
(***************************************************************************)
\* a faction id of neither template
OtherFaction == MaxFaction + 1

\* the lists in which id f is absent or sits in one slot, the first slot being
\* empty, f itself or another faction
FactionLists(f) ==
    {[i \in 1..NumSlots |-> IF i = k THEN f ELSE IF i = 1 THEN g ELSE 0] :
        k \in 1..NumSlots, g \in {0, OtherFaction}}
    \cup {Slots(<<>>), Slots(<<OtherFaction>>)}

TemplateStores ==
    /\ fac = WorldFactions
    /\ corpses = NoObjects
    /\ config = DefaultConfig
    /\ units = World(Player, Player)
    /\ gos = NoObjects
    /\ dyns = NoObjects
    /\ last = NoCall

\* every combination of the five group masks; each list empty or holding the
\* other template's faction
InitTemplateMasks ==
    /\ TemplateStores
    /\ tpl \in
        {(1 :> (a @@ [faction |-> 1, contestedGuard |-> FALSE])) @@
         (2 :> (b @@ [faction |-> MaxFaction, enemyGroupMask |-> 0,
                      enemyFaction |-> Slots(<<>>), contestedGuard |-> FALSE])) :
            a \in [factionGroupMask : 0..MaxMask,
                   friendGroupMask : 0..MaxMask,
                   enemyGroupMask : 0..MaxMask,
                   enemyFaction : {Slots(<<>>), Slots(<<MaxFaction>>)},
                   friendFaction : {Slots(<<>>), Slots(<<MaxFaction>>)}],
            b \in [factionGroupMask : 0..MaxMask,
                   friendGroupMask : 0..MaxMask,
                   friendFaction : {Slots(<<>>), Slots(<<1>>)}]}

\* every placement of the other template's faction in the three lists, every
\* pair of faction ids; each mask empty or full
InitTemplateLists ==
    /\ TemplateStores
    /\ \E fa \in 0..MaxFaction, fb \in 0..MaxFaction :
        tpl \in
            {(1 :> (a @@ [faction |-> fa, contestedGuard |-> FALSE])) @@
             (2 :> (b @@ [faction |-> fb, enemyGroupMask |-> 0,
                          enemyFaction |-> Slots(<<>>), contestedGuard |-> FALSE])) :
                a \in [factionGroupMask : {0, MaxMask},
                       friendGroupMask : {0, MaxMask},
                       enemyGroupMask : {0, MaxMask},
                       enemyFaction : FactionLists(fb),
                       friendFaction : FactionLists(fb)],
                b \in [factionGroupMask : {0, MaxMask},
                       friendGroupMask : {0, MaxMask},
                       friendFaction : FactionLists(fa)]}

InitTemplates == InitTemplateMasks \/ InitTemplateLists

NextTemplates == CallGetFactionReaction_Template

SpecTemplates == InitTemplates /\ [][NextTemplates]_vars

(***************************************************************************)
(* SpecFactionUnit: template to unit reactions.  Unit 1 is the target in   *)
(* every state of its control, contested flag and reputation; unit 2 is a  *)
(* player that may own it.                                                 *)
(***************************************************************************)
RanksOf(rs) == {(3 :> r) @@ (5 :> REP_NEUTRAL) : r \in rs}

InitFactionUnit ==
    /\ FixedStores
    /\ gos = NoObjects
    /\ dyns = NoObjects
    /\ units \in
        {World(o1 @@ Player, o2 @@ Player) :
            o1 \in [typeId : TypeIds,
                    flags : {{"PLAYER_CONTROLLED"}, {}},
                    owner : {0, 2, 3},
                    faction : {0, 1, 4},
                    playerFlags : SUBSET {"CONTESTED_PVP"},
                    forced : {NoForced, 3 :> REP_FRIENDLY, 4 :> REP_FRIENDLY, 5 :> REP_HOSTILE},
                    rank : RanksOf({REP_HOSTILE, REP_UNFRIENDLY, REP_HONORED})],
            o2 \in [playerFlags : SUBSET {"CONTESTED_PVP"},
                    forced : {NoForced, 3 :> REP_EXALTED},
                    rank : RanksOf({REP_HOSTILE, REP_NEUTRAL})]}

NextFactionUnit == CallGetFactionReaction_Unit

SpecFactionUnit == InitFactionUnit /\ [][NextFactionUnit]_vars

(***************************************************************************)
(* SpecViews: the boolean views of every kind of viewer.  Unit 1 is the    *)
(* target, unit 2 the owner of game object 1 and the caster of dynamic     *)
(* object 1, either of which may have none.                                *)
(***************************************************************************)
ViewUnits ==
    {World(o1 @@ Player, o2 @@ Creature) :
        o1 \in [typeId : TypeIds,
                flags : {{"PLAYER_CONTROLLED"}, {}},
                faction : {1, 4},
                rank : RanksOf({REP_HOSTILE, REP_UNFRIENDLY, REP_NEUTRAL, REP_FRIENDLY})],
        o2 \in [flags : {{"PLAYER_CONTROLLED"}, {}},
                faction : {3, 4}]}

\* a game object in every state of its owner and faction, beside a dynamic
\* object without caster
InitGameObjectViews ==
    /\ FixedStores
    /\ units \in ViewUnits
    /\ gos \in {1 :> g : g \in [owner : {0, 2, MissingGuid}, faction : {0, 3, 4, 9}]}
    /\ dyns = 1 :> [caster |-> 0]

\* a dynamic object with its caster, beside a game object without owner and
\* faction
InitDynamicObjectViews ==
    /\ FixedStores
    /\ units \in ViewUnits
    /\ gos = 1 :> [owner |-> 0, faction |-> 0]
    /\ dyns \in {1 :> d : d \in [caster : {2, MissingGuid}]}

InitViews == InitGameObjectViews \/ InitDynamicObjectViews

NextViews ==
    \/ CallUnit_IsEnemy
    \/ CallUnit_IsFriend
    \/ CallGameObject_IsEnemy
    \/ CallGameObject_IsFriend
    \/ CallDynamicObject_IsEnemy
    \/ CallDynamicObject_IsFriend
    \/ CallWorldObject_IsEnemy
    \/ CallWorldObject_IsFriend

SpecViews == InitViews /\ [][NextViews]_vars

(***************************************************************************)
(* SpecProxies: game objects and dynamic objects against their owner and   *)
(* caster, over the worlds of SpecViews.                                   *)
(***************************************************************************)
NextProxies ==
    \/ CallGameObject_GetReactionTo
    \/ CallGameObject_IsEnemy
    \/ CallGameObject_IsFriend
    \/ CallDynamicObject_GetReactionTo
    \/ CallDynamicObject_IsEnemy
    \/ CallDynamicObject_IsFriend

SpecProxies == InitViews /\ [][NextProxies]_vars

(***************************************************************************)
(* SpecAttack: attacks between duelling players and between a player and   *)
(* a creature.                                                             *)
(***************************************************************************)
InitDuel ==
    /\ FixedStores
    /\ gos = NoObjects
    /\ dyns = NoObjects
    /\ units \in
        {World(o1 @@ d1 @@ Player, o2 @@ d2 @@ Player) :
            o1 \in [flags : {{"PLAYER_CONTROLLED"}, {"PLAYER_CONTROLLED", "UNTARGETABLE"},
                             {"PLAYER_CONTROLLED", "IMMUNE_TO_PLAYER"}, {}},
                    charmer : {0, 3}],
            d1 \in {Duel(1, 1), Duel(2, 1)},
            o2 \in [flags : {{"PLAYER_CONTROLLED"}, {"PLAYER_CONTROLLED", "UNTARGETABLE"},
                             {"PLAYER_CONTROLLED", "IMMUNE_TO_PLAYER"}, {}},
                    faction : {1, 2},
                    charmer : {0, 3},
                    pvp : BOOLEAN],
            d2 \in {NoDuel, Duel(1, 1), Duel(1, 2)}}

\* a player, alive or a ghost, and a creature or a pet of the player
InitMixed ==
    /\ FixedStores
    /\ gos = NoObjects
    /\ dyns = NoObjects
    /\ units \in
        {World(o1 @@ Player, o2 @@ Creature) :
            o1 \in [flags : {{"PLAYER_CONTROLLED"}, {"PLAYER_CONTROLLED", "NOT_ATTACKABLE_1"},
                             {"PLAYER_CONTROLLED", "IMMUNE_TO_NPC"}},
                    playerFlags : SUBSET {"GHOST", "CONTESTED_PVP"},
                    rank : RanksOf({REP_UNFRIENDLY, REP_NEUTRAL, REP_FRIENDLY}),
                    atWar : SUBSET {3}],
            o2 \in [flags : {{}, {"IMMUNE_TO_PLAYER"}, {"UNINTERACTIBLE"}, {"PLAYER_CONTROLLED"}},
                    faction : {3, 4, 5},
                    owner : {0, 1},
                    visibleToGhosts : BOOLEAN]}

InitAttack == InitDuel \/ InitMixed

NextAttack ==
    \/ CallUnit_CanAttack
    \/ CallUnit_GetReactionTo

SpecAttack == InitAttack /\ [][NextAttack]_vars

(***************************************************************************)
(* SpecSpell: harmful spells between two players and from creatures at a   *)
(* player.  SpecProxySpell: the spell checks of a dynamic object over the  *)
(* same units.                                                             *)
(***************************************************************************)
\* the templates of the world and 6, a neutral creature faction without
\* reputation
SpellTemplates == WorldTemplates @@ (6 :> Template(6, 0, 0, 0, <<>>, <<>>, FALSE))

SpellFactions == WorldFactions @@ (6 :> [hasReputation |-> FALSE])

\* a world of two units
Pair(u1, u2) == (1 :> u1) @@ (2 :> u2)

\* a duel in its countdown, and a duel that has started
Countdown(team) == [duelTeam |-> team, duelArbiter |-> 1, duelOpponent |-> 0]

Started(team, opponent) == [duelTeam |-> team, duelArbiter |-> 1, duelOpponent |-> opponent]

NoDuelAtAll == [duelTeam |-> 0, duelArbiter |-> 0, duelOpponent |-> 0]

\* two players, alive or dead, in every state of their PvP flags and their duel
SpellPlayerUnits ==
    {Pair(o1 @@ d[1] @@ Player, o2 @@ d[2] @@ Player) :
        o1 \in [pvp : BOOLEAN, ffa : BOOLEAN],
        o2 \in [pvp : BOOLEAN, ffa : BOOLEAN, faction : {1, 2}, alive : BOOLEAN],
        d \in {<<NoDuelAtAll, NoDuelAtAll>>, <<Countdown(1), Countdown(2)>>,
               <<Started(1, 2), Started(2, 1)>>}}

\* a player, alive or dead, and a creature of a guard, monster, alliance or
\* neutral faction
SpellCreatureUnits ==
    {Pair(o1 @@ Player, o2 @@ Creature) :
        o1 \in [flags : {{"PLAYER_CONTROLLED"}, {"PLAYER_CONTROLLED", "IMMUNE_TO_NPC"}},
                alive : BOOLEAN,
                atWar : SUBSET {3},
                rank : RanksOf({REP_UNFRIENDLY, REP_NEUTRAL, REP_FRIENDLY})],
        o2 \in [faction : {3, 4, 5, 6}]}

SpellStores ==
    /\ tpl = SpellTemplates
    /\ fac = SpellFactions
    /\ gos = NoObjects
    /\ corpses = NoObjects
    /\ config = DefaultConfig
    /\ last = NoCall

InitSpell ==
    /\ SpellStores
    /\ dyns = NoObjects
    /\ units \in SpellPlayerUnits \cup SpellCreatureUnits

NextSpell == CallUnit_CanAttackSpell

SpecSpell == InitSpell /\ [][NextSpell]_vars

InitProxySpell ==
    /\ SpellStores
    /\ dyns \in {1 :> d : d \in [caster : {0, 1, 2}]}
    /\ units \in SpellPlayerUnits \cup SpellCreatureUnits

NextProxySpell ==
    \/ CallDynamicObject_CanAttackSpell
    \/ CallDynamicObject_CanAssistSpell

SpecProxySpell == InitProxySpell /\ [][NextProxySpell]_vars

(***************************************************************************)
(* SpecAssist: Unit::CanAssist and Unit::CanCooperate on two units.        *)
(***************************************************************************)
\* a duel under another arbiter
OtherDuel(team) == [duelTeam |-> team, duelArbiter |-> 2, duelOpponent |-> 0]

\* two players in every state of their PvP flags, their duels and the
\* target's flags
AssistPlayerUnits ==
    {Pair(o1 @@ d[1] @@ Player, o2 @@ d[2] @@ Player) :
        o1 \in [pvp : BOOLEAN, ffa : BOOLEAN],
        o2 \in [ffa : BOOLEAN, faction : {1, 2},
                flags : {{"PLAYER_CONTROLLED"},
                         {"PLAYER_CONTROLLED", "UNINTERACTIBLE"},
                         {"PLAYER_CONTROLLED", "NOT_ATTACKABLE_1"}}],
        d \in {<<NoDuelAtAll, NoDuelAtAll>>, <<Countdown(1), Countdown(2)>>,
               <<Countdown(1), Countdown(1)>>, <<Countdown(1), OtherDuel(1)>>,
               <<NoDuelAtAll, Countdown(1)>>}}

\* a player and a creature: a wild or charmed creature, a pet of the player,
\* of no faction, the player's faction, a monster or an alliance guard
AssistCreatureUnits ==
    {Pair(o1 @@ d @@ Player, o2 @@ Creature) :
        o1 \in [pvp : BOOLEAN, ffa : BOOLEAN,
                rank : {(3 :> REP_NEUTRAL) @@ (5 :> r) : r \in {REP_NEUTRAL, REP_FRIENDLY}}],
        o2 \in [faction : {0, 1, 4, 5}, charmer : {0, 1}, pvp : BOOLEAN,
                flags : {{}, {"PLAYER_CONTROLLED"}}],
        d \in {NoDuelAtAll, Countdown(1)}}

InitAssist ==
    /\ FixedStores
    /\ gos = NoObjects
    /\ dyns = NoObjects
    /\ units \in AssistPlayerUnits \cup AssistCreatureUnits

NextAssist ==
    \/ CallUnit_CanAssist
    \/ CallUnit_CanCooperate

SpecAssist == InitAssist /\ [][NextAssist]_vars

(***************************************************************************)
(* SpecFog: the fog of war gates on two units under every mode of one gate *)
(* at a time, recognised or not.                                           *)
(***************************************************************************)
\* the values of a mode switch: 0, 1 and 2, and 3 that no gate recognises
FogModes == 0..3

FogConfigs ==
    {[DefaultConfig EXCEPT ![k] = v] :
        k \in {"fogOfWarStealth", "fogOfWarHealth", "fogOfWarStats"}, v \in FogModes}

Alliance == [faction |-> 1, team |-> "ALLIANCE"]

Horde == [faction |-> 2, team |-> "HORDE"]

\* two players, grouped or not, of one team or two, the first a game master
\* or not
FogPlayerUnits ==
    {Pair(o1 @@ Player, o2 @@ t @@ Player) :
        o1 \in [gameMaster : BOOLEAN, group : {0, 1}],
        o2 \in [group : {0, 1}, pvp : BOOLEAN],
        t \in {Alliance, Horde}}

\* a player and a creature: wild, the player's summon, the player's pet, or
\* the player's pet under a charm of somebody out of the world
FogCreatureUnits ==
    {Pair(o1 @@ Player, o2 @@ Creature) :
        o1 \in [gameMaster : BOOLEAN],
        o2 \in [summoner : {0, 1}, owner : {0, 1}, charmer : {0, MissingGuid},
                flags : {{}, {"PLAYER_CONTROLLED"}}, faction : {1, 4}]}

\* two creatures
FogCreaturePairs ==
    {Pair(o1 @@ Creature, o2 @@ Creature) :
        o1 \in [faction : {1, 4}],
        o2 \in [faction : {1, 4}, summoner : {0, 1}]}

InitFog ==
    /\ tpl = WorldTemplates
    /\ fac = WorldFactions
    /\ gos = NoObjects
    /\ dyns = NoObjects
    /\ corpses = NoObjects
    /\ last = NoCall
    /\ config \in FogConfigs
    /\ units \in FogPlayerUnits \cup FogCreatureUnits \cup FogCreaturePairs

NextFog ==
    \/ CallUnit_IsFogOfWarVisibleStealth
    \/ CallUnit_IsFogOfWarVisibleHealth
    \/ CallUnit_IsFogOfWarVisibleStats

SpecFog == InitFog /\ [][NextFog]_vars

(***************************************************************************)
(* SpecCorpse: reactions to the corpse of a player, with cross-faction     *)
(* grouping on or off and the generic ally templates loaded or not.        *)
(***************************************************************************)
GenericTemplates ==
    (AllianceGeneric :> Template(1, 3, 2, 4, <<>>, <<>>, FALSE)) @@
    (HordeGeneric :> Template(2, 5, 4, 2, <<>>, <<>>, FALSE))

\* a template id that the store does not hold
MissingTemplate == 7

\* the viewer, of either team and with or without a faction template, and the
\* owner of the corpse, of either team, in the viewer's group or not
CorpseUnits ==
    {Pair(o1 @@ t1 @@ Player, o2 @@ t2 @@ Player) :
        o1 \in [group : {0, 1}],
        o2 \in [group : {0, 1}],
        t1 \in {Alliance, Horde, [faction |-> 0, team |-> "ALLIANCE"],
                [faction |-> MissingTemplate, team |-> "HORDE"]},
        t2 \in {Alliance, Horde}}

InitCorpse ==
    /\ tpl \in {WorldTemplates, WorldTemplates @@ GenericTemplates}
    /\ fac = WorldFactions
    /\ gos = NoObjects
    /\ dyns = NoObjects
    /\ last = NoCall
    /\ config \in {[DefaultConfig EXCEPT !.allowTwoSideInteractionGroup = v] : v \in BOOLEAN}
    /\ units \in CorpseUnits
    /\ corpses \in {1 :> c : c \in [owner : {0, 2}, faction : {0, 1, 2, MissingTemplate}]}

NextCorpse ==
    \/ CallUnit_GetReactionTo_Corpse
    \/ CallPlayer_GetReactionTo_Corpse

SpecCorpse == InitCorpse /\ [][NextCorpse]_vars

(***************************************************************************)
(* SpecIndirection: controlling player resolution and the delegation of    *)
(* game objects and dynamic objects, step by step, over two units in every *)
(* state of their owner and charm relations, the cyclic ones included.  A  *)
(* call that has begun runs to its end: the steps are weakly fair.         *)
(***************************************************************************)
\* each unit a player or a creature, owned or charmed by the other or by a
\* unit out of the world
IndirectionUnits ==
    {Pair(o1 @@ Creature, o2 @@ Creature) :
        o1 \in [typeId : TypeIds, owner : {0, 2}, charmer : {0, 2, MissingGuid}],
        o2 \in [typeId : TypeIds, owner : {0, 1}, charmer : {0, 1, MissingGuid}]}

InitIndirection ==
    /\ FixedStores
    /\ units \in IndirectionUnits
    /\ gos \in {1 :> g : g \in [owner : {0, 1, MissingGuid}, faction : {0, 3}]}
    /\ dyns \in {1 :> d : d \in [caster : {0, 1}]}

StepIndirection ==
    \/ EnterGetControllingPlayer
    \/ MasterGetControllingPlayer
    \/ EnterGameObject_GetReactionTo
    \/ OwnerGameObject_GetReactionTo
    \/ EnterDynamicObject_GetReactionTo
    \/ CasterDynamicObject_GetReactionTo

NextIndirection ==
    \/ BeginGetControllingPlayer
    \/ BeginGameObject_GetReactionTo
    \/ BeginDynamicObject_GetReactionTo
    \/ StepIndirection

SpecIndirection == InitIndirection /\ [][NextIndirection]_vars /\ WF_vars(StepIndirection)

(***************************************************************************)
(* SpecGates: the attack queries on two units, the target with or without  *)
(* one of the flags that block every attack.                               *)
(***************************************************************************)
\* the flags of a target: none, or one of the blocking flags, or an immunity
TargetFlags ==
    {{}} \cup {{f} : f \in AttackBlockMask} \cup {{"IMMUNE_TO_NPC"}, {"IMMUNE_TO_PLAYER"}}

\* two players in every state of PvP and duel
GatePlayerUnits ==
    {Pair(o1 @@ d[1] @@ Player, [o2 EXCEPT !.flags = @ \cup {"PLAYER_CONTROLLED"}] @@ d[2] @@ Player) :
        o1 \in [ffa : BOOLEAN],
        o2 \in [pvp : BOOLEAN, ffa : BOOLEAN, faction : {1, 2}, flags : TargetFlags],
        d \in {<<NoDuelAtAll, NoDuelAtAll>>, <<Started(1, 2), Started(2, 1)>>}}

\* two creatures of the alliance, the monsters or the alliance guards; the
\* monsters see the alliance as enemy, the alliance does not see the monsters so
GateCreatureUnits ==
    {Pair(o1 @@ Creature, o2 @@ Creature) :
        o1 \in [faction : {1, 4, 5}, flags : {{}, {"IMMUNE_TO_NPC"}}, alive : BOOLEAN],
        o2 \in [faction : {1, 4, 5}, flags : TargetFlags, alive : BOOLEAN,
                evadingHome : BOOLEAN]}

\* a monster or a guard and a player, alive or a ghost
GateMixedUnits ==
    {Pair(o1 @@ Creature, [o2 EXCEPT !.flags = @ \cup {"PLAYER_CONTROLLED"}] @@ Player) :
        o1 \in [faction : {4, 5}, visibleToGhosts : BOOLEAN],
        o2 \in [flags : TargetFlags, playerFlags : {{}, {"GHOST"}},
                rank : {(3 :> REP_NEUTRAL) @@ (5 :> r) : r \in {REP_NEUTRAL, REP_FRIENDLY}},
                atWar : SUBSET {5}]}

InitGates ==
    /\ FixedStores
    /\ gos = NoObjects
    /\ dyns = NoObjects
    /\ units \in GatePlayerUnits \cup GateCreatureUnits \cup GateMixedUnits

NextGates ==
    \/ CallUnit_CanAttack
    \/ CallUnit_CanAttackNow
    \/ CallUnit_CanAttackOnSight
    \/ CallUnit_CanJoinInAttacking
    \/ CallUnit_CanAttackServerside

SpecGates == InitGates /\ [][NextGates]_vars

(***************************************************************************)
(* SpecPlayerReaction: the reaction of a player to a creature of every     *)
(* kind of faction.                                                        *)
(***************************************************************************)
\* the templates of the spell worlds and 8, a contested guard template of
\* faction 6, which tracks no reputation
PlayerReactionTemplates == SpellTemplates @@ (8 :> Template(6, 0, 0, 0, <<>>, <<>>, TRUE))

\* a player, contested or not, with or without a forced rank and a war, and a
\* creature
PlayerReactionUnits ==
    {Pair(o1 @@ Player, o2 @@ Creature) :
        o1 \in [playerFlags : SUBSET {"CONTESTED_PVP"},
                forced : {NoForced, 3 :> REP_EXALTED, 6 :> REP_HONORED},
                atWar : SUBSET {3, 5}],
        o2 \in [faction : {0, 3, 4, 5, 6, 8}, flags : {{}, {"PERSUADED"}}]}

InitPlayerReaction ==
    /\ tpl = PlayerReactionTemplates
    /\ fac = SpellFactions
    /\ gos = NoObjects
    /\ dyns = NoObjects
    /\ corpses = NoObjects
    /\ config = DefaultConfig
    /\ last = NoCall
    /\ units \in PlayerReactionUnits

NextPlayerReaction == CallUnit_GetReactionTo

SpecPlayerReaction == InitPlayerReaction /\ [][NextPlayerReaction]_vars

(***************************************************************************)
(* SpecCombat: CanAttackServerside, CanAttackInCombat and CanAttackSpell   *)
(* on a player and a creature or a pet, in every state of the reputation   *)
(* of the player and of the flags of the target.                           *)
(***************************************************************************)
\* a player and a player controlled creature, its pet or one flagged so by its
\* template, of the player's faction or of the faction of the alliance guards
CombatPetUnits ==
    {Pair([o1 EXCEPT !.flags = @ \cup {"PLAYER_CONTROLLED"}] @@ Player,
          o2 @@ [flags |-> {"PLAYER_CONTROLLED"}] @@ Creature) :
        o1 \in [flags : {{}, {"TAXI_FLIGHT"}}, atWar : SUBSET {5},
                rank : {(3 :> REP_NEUTRAL) @@ (5 :> r) : r \in {REP_NEUTRAL, REP_FRIENDLY}}],
        o2 \in [faction : {1, 5}, owner : {0, 1}]}

InitCombat ==
    /\ FixedStores
    /\ gos = NoObjects
    /\ dyns = NoObjects
    /\ units \in GateMixedUnits \cup CombatPetUnits

NextCombat ==
    \/ CallUnit_CanAttackServerside
    \/ CallUnit_CanAttackInCombat
    \/ CallUnit_CanAttackSpell

SpecCombat == InitCombat /\ [][NextCombat]_vars

(***************************************************************************)
(* SpecGuild: IsInGuild and IsInTeam on two players of every guild         *)
(* membership, and on a player and a creature it owns or charms.           *)
(***************************************************************************)
\* the guild ids; 0 is the id of a player of no guild
GuildIds == 0 .. 2

GuildPlayerUnits ==
    {Pair(o1 @@ Player, o2 @@ Player) :
        o1 \in [guildId : GuildIds, flags : {{}, {"PLAYER_CONTROLLED"}}],
        o2 \in [guildId : GuildIds, team : {"ALLIANCE", "HORDE"}]}

GuildCreatureUnits ==
    {Pair(o1 @@ Player, o2 @@ Creature) :
        o1 \in [guildId : GuildIds],
        o2 \in [flags : {{}, {"PLAYER_CONTROLLED"}}, owner : {0, 1}, charmer : {0, 1}]}

InitGuild ==
    /\ FixedStores
    /\ gos = NoObjects
    /\ dyns = NoObjects
    /\ units \in GuildPlayerUnits \cup GuildCreatureUnits

NextGuild ==
    \/ CallUnit_IsInGuild
    \/ CallUnit_IsInTeam

SpecGuild == InitGuild /\ [][NextGuild]_vars

(***************************************************************************)
(* SpecInteract: CanInteract and CanInteractNow of a player or a creature  *)
(* on a creature or a player, alive or dead.                               *)
(***************************************************************************)
\* a player is alive, dead, or dead and a ghost
LifeStates ==
    {[alive |-> TRUE, playerFlags |-> {}], [alive |-> FALSE, playerFlags |-> {}],
     [alive |-> FALSE, playerFlags |-> {"GHOST"}]}

\* a player, on foot or in a taxi, in any form, and a creature of the player's
\* faction
InteractPlayerUnits ==
    {Pair(o1 @@ l @@ Player, o2 @@ [faction |-> 1] @@ Creature) :
        l \in LifeStates,
        o1 \in [flags : {{"PLAYER_CONTROLLED"}, {"PLAYER_CONTROLLED", "TAXI_FLIGHT"}},
                shapeshiftForm : 0 .. 3],
        o2 \in [alive : BOOLEAN, interactWhileDead : BOOLEAN,
                npcFlags : {{}, {"GOSSIP"}},
                flags : {{}, {"PET_IN_COMBAT"}, {"UNINTERACTIBLE"}},
                visibleToGhosts : BOOLEAN, victim : {0, 1}]}

\* a creature, free or charmed, and a creature or a player of its faction
InteractCreatureUnits ==
    {Pair(o1 @@ [faction |-> 1] @@ Creature, o2 @@ [faction |-> 1] @@ Creature) :
        o1 \in [alive : BOOLEAN, charmer : {0, 2}],
        o2 \in [alive : BOOLEAN, interactWhileDead : BOOLEAN,
                npcFlags : {{}, {"GOSSIP"}}, charmer : {0, 1}]}
    \cup
    {Pair(o1 @@ [faction |-> 1] @@ Creature, l @@ Player) :
        o1 \in [alive : BOOLEAN, charmer : {0, 2}],
        l \in LifeStates}

InitInteract ==
    /\ FixedStores
    /\ gos = NoObjects
    /\ dyns = NoObjects
    /\ units \in InteractPlayerUnits \cup InteractCreatureUnits

NextInteract ==
    \/ CallUnit_CanInteract
    \/ CallUnit_CanInteractNow

SpecInteract == InitInteract /\ [][NextInteract]_vars

(***************************************************************************)
(* Properties.                                                             *)
(***************************************************************************)
\* a player that is flagged player controlled and is its own controlling player
OwnPlayer(u) ==
    /\ units[u].typeId = "TYPEID_PLAYER"
    /\ IsPlayerControlled(u)
    /\ GetMasterGuid(u) = 0

SelfReactionCall == last.op = "Unit_GetReactionTo" /\ last.a = last.b

\* C1 (as amended): the reaction of a unit to itself is Friendly, in every
\* state of its flags, faction, reputation and charm relations.
C1_SelfReactionIsFriendly == SelfReactionCall => last.res = REP_FRIENDLY

\* C1 (as claimed): the reaction of a unit to itself is the most friendly rank
\* of the ReputationRank ordering.
C1_SelfReactionIsMostFriendly == SelfReactionCall => last.res = REP_EXALTED

\* C1 witness: a self reaction of a charmed creature without a faction template
C1_Witness ==
    /\ SelfReactionCall
    /\ units[last.a].typeId = "TYPEID_UNIT"
    /\ units[last.a].charmer # 0
    /\ GetFactionTemplateEntry(last.a) = 0

UnresolvedPairCall ==
    /\ last.op = "Unit_GetReactionTo"
    /\ last.a # last.b
    /\ IsPlayerControlled(last.a)
    /\ IsPlayerControlled(last.b)
    /\ (GetControllingPlayer(last.a, FALSE) = 0 \/ GetControllingPlayer(last.b, FALSE) = 0)

\* C7: two distinct player controlled units of which one has no controlling
\* player react Neutral to each other, whatever their faction templates, duel,
\* group, free-for-all and persuasion state.
C7_UnresolvedPlayersAreNeutral == UnresolvedPairCall => last.res = REP_NEUTRAL

\* C7 witness: the caller resolves to a player, the target does not, the target
\* is persuaded and the templates of the two are hostile
C7_Witness ==
    /\ UnresolvedPairCall
    /\ GetControllingPlayer(last.a, FALSE) # 0
    /\ HasFlag(last.b, {"PERSUADED"})
    /\ units[last.b].faction = 4
    /\ units[last.a].ffa /\ units[last.b].ffa
    /\ SameDuel(last.a, last.b)

DuelOpponents(p, q) == SameDuel(p, q) /\ units[p].duelTeam # units[q].duelTeam

GroupedPlayersCall ==
    /\ last.op = "Unit_GetReactionTo"
    /\ last.a # last.b
    /\ units[last.a].typeId = "TYPEID_PLAYER"
    /\ units[last.b].typeId = "TYPEID_PLAYER"
    /\ SameGroup(last.a, last.b, FALSE)
    /\ ~DuelOpponents(last.a, last.b)
    /\ ~(units[last.a].ffa /\ units[last.b].ffa)

\* C8 (as amended): two distinct players in the same group, each flagged player
\* controlled and its own controlling player (neither charmed nor owned), not
\* duelling each other and not both free-for-all, react Friendly to each other.
C8_GroupedOwnPlayersAreFriendly ==
    GroupedPlayersCall /\ OwnPlayer(last.a) /\ OwnPlayer(last.b) => last.res = REP_FRIENDLY

\* C8 (as claimed): two distinct players in the same group, not duelling each
\* other and not both free-for-all, react Friendly to each other.
C8_GroupedPlayersAreFriendly == GroupedPlayersCall => last.res = REP_FRIENDLY

\* C8 witness: grouped players of opposite teams, one with a forced hostile rank
\* toward the other's faction
C8_Witness ==
    /\ GroupedPlayersCall
    /\ OwnPlayer(last.a)
    /\ OwnPlayer(last.b)
    /\ units[last.a].faction # units[last.b].faction
    /\ GetForcedRankIfAny(last.a, GetFactionTemplateEntry(last.b)) = REP_HOSTILE

TemplateCall == last.op = "GetFactionReaction_Template"

Intersects(x, y) == BitAnd(x, y) # 0

\* the faction id (0 marks an empty slot) occurs in some slot of the list
Occurs(list, id) == id # 0 /\ \E i \in DOMAIN list : list[i] = id

\* the faction id occurs in the list and the list's first slot is filled
Listed(list, id) == list[1] # 0 /\ Occurs(list, id)

\* C3: when a's enemy group mask intersects b's group mask the reaction of a to
\* b is Hostile, whatever friend conditions hold in either direction.
C3_EnemyMaskWins ==
    TemplateCall /\ Intersects(tpl[last.b].factionGroupMask, tpl[last.a].enemyGroupMask)
        => last.res = REP_HOSTILE

\* C3 witness: the enemy mask matches while every friend condition holds too
C3_Witness ==
    /\ TemplateCall
    /\ last.a # last.b
    /\ Intersects(tpl[last.b].factionGroupMask, tpl[last.a].enemyGroupMask)
    /\ Intersects(tpl[last.b].factionGroupMask, tpl[last.a].friendGroupMask)
    /\ Listed(tpl[last.a].friendFaction, tpl[last.b].faction)
    /\ Intersects(tpl[last.a].factionGroupMask, tpl[last.b].friendGroupMask)
    /\ Listed(tpl[last.b].friendFaction, tpl[last.a].faction)

\* the reference definition of C4, with `in` the test for an id in a list
ReferenceReaction(a, b, in(_, _)) ==
    IF \/ Intersects(b.factionGroupMask, a.enemyGroupMask)
       \/ in(a.enemyFaction, b.faction)
    THEN REP_HOSTILE
    ELSE IF \/ Intersects(b.factionGroupMask, a.friendGroupMask)
            \/ in(a.friendFaction, b.faction)
            \/ Intersects(a.factionGroupMask, b.friendGroupMask)
            \/ in(b.friendFaction, a.faction)
    THEN REP_FRIENDLY
    ELSE REP_NEUTRAL

\* C4 (as amended): the reaction of template a to template b is Hostile if b's
\* group mask intersects a's enemy group mask or b's faction id is listed in a's
\* enemy list; otherwise Friendly if b's group mask intersects a's friend group
\* mask, or b's faction id is listed in a's friend list, or a's group mask
\* intersects b's friend group mask, or a's faction id is listed in b's friend
\* list; otherwise Neutral.  A faction id is listed in a list only if the id is
\* not 0, it occurs in some slot, and the list's first slot is not 0.
C4_ReactionIsReferenceOnListed ==
    TemplateCall => last.res = ReferenceReaction(tpl[last.a], tpl[last.b], Listed)

\* C4 (as claimed): the same with "the faction id occurs in any slot of the
\* list", whatever the list's first slot holds.
C4_ReactionIsReference ==
    TemplateCall => last.res = ReferenceReaction(tpl[last.a], tpl[last.b], Occurs)

\* C4 witness: only the last condition, a's faction in a later slot of b's friend
\* list, decides
C4_Witness ==
    /\ TemplateCall
    /\ last.a # last.b
    /\ last.res = REP_FRIENDLY
    /\ ~Intersects(tpl[last.b].factionGroupMask, tpl[last.a].friendGroupMask)
    /\ ~Occurs(tpl[last.a].friendFaction, tpl[last.b].faction)
    /\ ~Intersects(tpl[last.a].factionGroupMask, tpl[last.b].friendGroupMask)
    /\ tpl[last.b].friendFaction[1] # tpl[last.a].faction
    /\ Listed(tpl[last.b].friendFaction, tpl[last.a].faction)

\* a call of the template to unit reaction on a player controlled target with a
\* faction template and a resolved controlling player
PlayerTargetCall ==
    /\ last.op = "GetFactionReaction_Unit"
    /\ last.a # 0
    /\ GetFactionTemplateEntry(last.b) # 0
    /\ IsPlayerControlled(last.b)
    /\ GetControllingPlayer(last.b, FALSE) # 0

TargetPlayer == GetControllingPlayer(last.b, FALSE)

ForcedRank == GetForcedRankIfAny(TargetPlayer, last.a)

ContestedAgainstGuard ==
    HasPlayerFlag(TargetPlayer, {"CONTESTED_PVP"}) /\ tpl[last.a].contestedGuard

TracksReputation == FactionHasReputation(tpl[last.a].faction)

ComputedRank == GetRank(TargetPlayer, tpl[last.a].faction)

TemplateFallback == GetFactionReaction_Template(last.a, GetFactionTemplateEntry(last.b))

\* C5 (as amended): for a player controlled target with a faction template and a
\* resolved controlling player the overrides apply in the order (a) contested
\* PvP player against a contested guard template gives Hostile, (b) forced rank,
\* (c) reputation rank when the faction tracks reputation, else the template to
\* template reaction: a contested player with a forced rank gets Hostile from a
\* contested guard template.
C5_ContestedThenForcedThenRank ==
    PlayerTargetCall =>
        last.res = IF ContestedAgainstGuard THEN REP_HOSTILE
                   ELSE IF ForcedRank # NoRank THEN ForcedRank
                   ELSE IF TracksReputation THEN ComputedRank
                   ELSE TemplateFallback

\* C5 (as claimed): for a player controlled target with a faction template and
\* a resolved controlling player the order is (a) forced rank, (b) contested
\* PvP against a contested guard template gives Hostile, (c) reputation rank.
C5_ForcedThenContestedThenRank ==
    PlayerTargetCall =>
        last.res = IF ForcedRank # NoRank THEN ForcedRank
                   ELSE IF ContestedAgainstGuard THEN REP_HOSTILE
                   ELSE IF TracksReputation THEN ComputedRank
                   ELSE TemplateFallback

\* C5 witness: a contested player with a forced Friendly rank for a contested
\* guard template
C5_Witness ==
    /\ PlayerTargetCall
    /\ ContestedAgainstGuard
    /\ ForcedRank = REP_FRIENDLY
    /\ last.res = REP_HOSTILE

\* C6 (as amended): for a player controlled target with a faction template and a
\* resolved controlling player that has a forced rank for the viewing template,
\* the reaction is the forced rank, not the reputation rank nor the template to
\* template reaction, unless the player is contested PvP and the template is a
\* contested guard's.
C6_ForcedRankWinsUnlessContested ==
    PlayerTargetCall /\ ForcedRank # NoRank /\ ~ContestedAgainstGuard
        => last.res = ForcedRank

\* C6 (as claimed): for a player controlled target with a faction template and
\* a resolved controlling player that has a forced rank the reaction is never
\* the reputation rank nor the template to template reaction when these differ
\* from the forced rank.
C6_ForcedRankWins ==
    PlayerTargetCall /\ ForcedRank # NoRank =>
        /\ (TracksReputation /\ ComputedRank # ForcedRank => last.res # ComputedRank)
        /\ (TemplateFallback # ForcedRank => last.res # TemplateFallback)

\* C6 witness: the forced rank is returned where the reputation rank and the
\* template to template reaction both differ from it
C6_Witness ==
    /\ PlayerTargetCall
    /\ ForcedRank # NoRank
    /\ TracksReputation
    /\ ComputedRank # ForcedRank
    /\ TemplateFallback # ForcedRank
    /\ last.res = ForcedRank

IsEnemyOps ==
    {"Unit_IsEnemy", "GameObject_IsEnemy", "DynamicObject_IsEnemy", "WorldObject_IsEnemy"}

IsFriendOps ==
    {"Unit_IsFriend", "GameObject_IsFriend", "DynamicObject_IsFriend", "WorldObject_IsFriend"}

\* the reaction, and the two boolean views, of the viewer of the last call
ViewerReaction ==
    IF last.op \in {"Unit_IsEnemy", "Unit_IsFriend"} THEN Unit_GetReactionTo(last.a, last.b)
    ELSE IF last.op \in {"GameObject_IsEnemy", "GameObject_IsFriend"}
    THEN GameObject_GetReactionTo(last.a, last.b)
    ELSE IF last.op \in {"DynamicObject_IsEnemy", "DynamicObject_IsFriend"}
    THEN DynamicObject_GetReactionTo(last.a, last.b)
    ELSE WorldObject_GetReactionTo(last.a, last.b)

ViewerIsEnemy ==
    IF last.op \in {"Unit_IsEnemy", "Unit_IsFriend"} THEN Unit_IsEnemy(last.a, last.b)
    ELSE IF last.op \in {"GameObject_IsEnemy", "GameObject_IsFriend"}
    THEN GameObject_IsEnemy(last.a, last.b)
    ELSE IF last.op \in {"DynamicObject_IsEnemy", "DynamicObject_IsFriend"}
    THEN DynamicObject_IsEnemy(last.a, last.b)
    ELSE WorldObject_IsEnemy(last.a, last.b)

ViewerIsFriend ==
    IF last.op \in {"Unit_IsEnemy", "Unit_IsFriend"} THEN Unit_IsFriend(last.a, last.b)
    ELSE IF last.op \in {"GameObject_IsEnemy", "GameObject_IsFriend"}
    THEN GameObject_IsFriend(last.a, last.b)
    ELSE IF last.op \in {"DynamicObject_IsEnemy", "DynamicObject_IsFriend"}
    THEN DynamicObject_IsFriend(last.a, last.b)
    ELSE WorldObject_IsFriend(last.a, last.b)

\* C2: for every kind of viewer (unit, game object with or without owner,
\* dynamic object with or without caster, default world object) and every target
\* unit, IsEnemy is true exactly when the viewer's reaction is below Unfriendly
\* and IsFriend exactly when it is above Neutral; the two are never both true
\* and both are false when the reaction is Unfriendly or Neutral.
C2_ViewsFollowReaction ==
    /\ last.op \in IsEnemyOps => last.res = (ViewerReaction < REP_UNFRIENDLY)
    /\ last.op \in IsFriendOps => last.res = (ViewerReaction > REP_NEUTRAL)
    /\ last.op \in IsEnemyOps \cup IsFriendOps =>
        /\ ~(ViewerIsEnemy /\ ViewerIsFriend)
        /\ (ViewerReaction \in {REP_UNFRIENDLY, REP_NEUTRAL}
                => ~ViewerIsEnemy /\ ~ViewerIsFriend)

\* C2 witness: an ownerless game object with a faction template does not see a
\* unit as enemy to which its reaction is Unfriendly
C2_Witness ==
    /\ last.op = "GameObject_IsEnemy"
    /\ GameObject_GetOwner(last.a) = 0
    /\ GameObject_GetReactionTo(last.a, last.b) = REP_UNFRIENDLY
    /\ last.res = FALSE

\* two distinct players, both flagged player controlled, enrolled in one duel
DuellingPlayers(a, b) ==
    /\ a # b
    /\ units[a].typeId = "TYPEID_PLAYER"
    /\ units[b].typeId = "TYPEID_PLAYER"
    /\ IsPlayerControlled(a)
    /\ IsPlayerControlled(b)
    /\ SameDuel(a, b)

Attackable(a, b) ==
    /\ ~HasFlag(b, AttackBlockMask)
    /\ ~HasFlag(a, {"IMMUNE_TO_PLAYER"})
    /\ ~HasFlag(b, {"IMMUNE_TO_PLAYER"})

\* C9 (as amended): for two players enrolled in the same duel, each its own
\* controlling player: if their duel teams differ, CanAttack is true provided the
\* target carries no flag of the attack-block mask and neither carries
\* IMMUNE_TO_PLAYER; if their duel teams are equal, CanAttack is false and the
\* reaction is Friendly.
C9_DuelOfOwnPlayers ==
    last.op \in {"Unit_CanAttack", "Unit_GetReactionTo"}
        /\ DuellingPlayers(last.a, last.b) /\ OwnPlayer(last.a) /\ OwnPlayer(last.b)
    => IF units[last.a].duelTeam # units[last.b].duelTeam
       THEN last.op = "Unit_CanAttack" /\ Attackable(last.a, last.b) => last.res = TRUE
       ELSE IF last.op = "Unit_CanAttack" THEN last.res = FALSE
            ELSE last.res = REP_FRIENDLY

\* C9 (as claimed): for two players enrolled in the same duel (both duel teams
\* non-zero, same arbiter): if their duel teams differ, CanAttack is true; if
\* they are equal, CanAttack is false and the reaction is Friendly.
C9_Duel ==
    last.op \in {"Unit_CanAttack", "Unit_GetReactionTo"}
        /\ DuellingPlayers(last.a, last.b)
    => IF units[last.a].duelTeam # units[last.b].duelTeam
       THEN last.op = "Unit_CanAttack" => last.res = TRUE
       ELSE IF last.op = "Unit_CanAttack" THEN last.res = FALSE
            ELSE last.res = REP_FRIENDLY

\* C9 witness: a player may attack its opponent of the other duel team, who is
\* of its own faction and not flagged for PvP
C9_Witness ==
    /\ last.op = "Unit_CanAttack"
    /\ DuellingPlayers(last.a, last.b)
    /\ OwnPlayer(last.a)
    /\ OwnPlayer(last.b)
    /\ units[last.a].duelTeam # units[last.b].duelTeam
    /\ units[last.a].faction = units[last.b].faction
    /\ ~units[last.b].pvp
    /\ last.res = TRUE

\* exactly one of the two units is flagged player controlled
MixedPair(a, b) == IsPlayerControlled(a) # IsPlayerControlled(b)

\* a creature that is not visible to ghosts against the ghost of a player
GhostBlocked(a, b) ==
    /\ units[a].typeId = "TYPEID_UNIT"
    /\ units[b].typeId = "TYPEID_PLAYER"
    /\ HasPlayerFlag(b, {"GHOST"})
    /\ ~units[a].visibleToGhosts

\* neither direction is stopped by the ghost rule or by a flag of the target
GatesOpen(a, b) ==
    /\ ~GhostBlocked(a, b)
    /\ ~GhostBlocked(b, a)
    /\ ~HasFlag(a, AttackBlockMask)
    /\ ~HasFlag(b, AttackBlockMask)

\* C10 (as amended): for every pair in which exactly one unit is player
\* controlled, neither unit carries a flag of the attack-block mask and the
\* ghost rule stops neither direction, CanAttack(a, b) equals CanAttack(b, a)
\* whenever IsFriend(a, b) equals IsFriend(b, a).
C10_MixedAttackSymmetricWhenFriendIs ==
    last.op = "Unit_CanAttack" /\ MixedPair(last.a, last.b) /\ GatesOpen(last.a, last.b)
        /\ Unit_IsFriend(last.a, last.b) = Unit_IsFriend(last.b, last.a)
    => last.res = Unit_CanAttack(last.b, last.a)

\* C10 (as claimed): for every pair in which exactly one unit is player
\* controlled, CanAttack(a, b) equals CanAttack(b, a); stated here for the pairs
\* that neither the ghost rule nor a flag of the target stops.
C10_MixedAttackSymmetric ==
    last.op = "Unit_CanAttack" /\ MixedPair(last.a, last.b) /\ GatesOpen(last.a, last.b)
    => last.res = Unit_CanAttack(last.b, last.a)

\* C10 witness: a player and a creature that may attack each other, neither
\* seeing the other as friend
C10_Witness ==
    /\ last.op = "Unit_CanAttack"
    /\ MixedPair(last.a, last.b)
    /\ GatesOpen(last.a, last.b)
    /\ ~Unit_IsFriend(last.a, last.b)
    /\ ~Unit_IsFriend(last.b, last.a)
    /\ last.res = TRUE
    /\ Unit_CanAttack(last.b, last.a)

\* what a unit answers to the query of the last call
UnitAnswer(u) ==
    IF last.op \in {"GameObject_GetReactionTo", "DynamicObject_GetReactionTo"}
    THEN Unit_GetReactionTo(u, last.b)
    ELSE IF last.op \in {"GameObject_IsEnemy", "DynamicObject_IsEnemy"}
    THEN Unit_IsEnemy(u, last.b)
    ELSE Unit_IsFriend(u, last.b)

\* what a faction template answers to the query of the last call
TemplateAnswer(t) ==
    IF last.op = "GameObject_GetReactionTo" THEN GetFactionReaction_Unit(t, last.b)
    ELSE IF last.op = "GameObject_IsEnemy" THEN GetFactionReaction_Unit(t, last.b) < REP_UNFRIENDLY
    ELSE GetFactionReaction_Unit(t, last.b) > REP_NEUTRAL

\* the documented default of the query of the last call
DefaultAnswer ==
    IF last.op \in {"GameObject_GetReactionTo", "DynamicObject_GetReactionTo"}
    THEN REP_NEUTRAL ELSE FALSE

GameObjectOps == {"GameObject_GetReactionTo", "GameObject_IsEnemy", "GameObject_IsFriend"}

DynamicObjectOps ==
    {"DynamicObject_GetReactionTo", "DynamicObject_IsEnemy", "DynamicObject_IsFriend"}

\* C11: a game object with an owner and a dynamic object with a caster return
\* for GetReactionTo, IsEnemy and IsFriend what the owner / caster returns for
\* the same unit; without owner a game object answers from its own faction
\* template (Neutral / false without faction or with an unknown template) and a
\* dynamic object without caster answers Neutral / false.
C11_ProxiesDelegate ==
    /\ last.op \in GameObjectOps =>
        last.res = IF GetUnit(gos[last.a].owner) # 0
                   THEN UnitAnswer(GetUnit(gos[last.a].owner))
                   ELSE IF gos[last.a].faction \in DOMAIN tpl \ {0}
                   THEN TemplateAnswer(gos[last.a].faction)
                   ELSE DefaultAnswer
    /\ last.op \in DynamicObjectOps =>
        last.res = IF GetUnit(dyns[last.a].caster) # 0
                   THEN UnitAnswer(GetUnit(dyns[last.a].caster))
                   ELSE DefaultAnswer

\* C11 witness: a game object with an owner and a faction template of its own
\* returns the owner's reaction where the template's reaction differs
C11_Witness ==
    /\ last.op = "GameObject_GetReactionTo"
    /\ GetUnit(gos[last.a].owner) # 0
    /\ gos[last.a].faction \in DOMAIN tpl \ {0}
    /\ last.res = Unit_GetReactionTo(GetUnit(gos[last.a].owner), last.b)
    /\ last.res # GetFactionReaction_Unit(gos[last.a].faction, last.b)

\* C12: a dynamic object with a caster returns for CanAssistSpell what the
\* caster's CanAssistSpell returns for the same target and spell, and for
\* CanAttackSpell what the caster's CanAttackSpell returns; without caster both
\* return false.
C12_ProxySpellsDelegate ==
    /\ last.op = "DynamicObject_CanAssistSpell" =>
        last.res = IF GetUnit(dyns[last.a].caster) # 0
                   THEN Unit_CanAssistSpell(GetUnit(dyns[last.a].caster), last.b,
                                            last.spellInfo)
                   ELSE FALSE
    /\ last.op = "DynamicObject_CanAttackSpell" =>
        last.res = IF GetUnit(dyns[last.a].caster) # 0
                   THEN Unit_CanAttackSpell(GetUnit(dyns[last.a].caster), last.b,
                                            last.spellInfo, last.isAOE)
                   ELSE FALSE

\* C16: CanAttackSpell returns false for every dead target unless the spell
\* allows dead targets, also when the call is made without spell metadata.
C16_DeadTargetsBlocked ==
    last.op = "Unit_CanAttackSpell" /\ ~units[last.b].alive
        /\ ~(last.spellInfo.present /\ last.spellInfo.allowDeadTarget)
    => last.res = FALSE

\* an AOE call between two player controlled units with resolved controlling
\* players whose PvP states differ
AOEBetweenPlayers ==
    /\ last.op = "Unit_CanAttackSpell"
    /\ last.isAOE
    /\ IsPlayerControlled(last.a)
    /\ IsPlayerControlled(last.b)
    /\ GetControllingPlayer(last.a, FALSE) # 0
    /\ GetControllingPlayer(last.b, FALSE) # 0
    /\ units[GetControllingPlayer(last.a, FALSE)].pvp
        # units[GetControllingPlayer(last.b, FALSE)].pvp

BothFreeForAll ==
    /\ units[GetControllingPlayer(last.a, FALSE)].ffa
    /\ units[GetControllingPlayer(last.b, FALSE)].ffa

\* C17 (as amended): for an AOE CanAttackSpell check where attacker and target
\* are both player controlled with resolved controlling players whose PvP states
\* differ and the attacker's player is not in a started duel with the target's,
\* the result is true only if both controlling players are free-for-all PvP.
C17_AOENeedsFreeForAllOutsideDuel ==
    AOEBetweenPlayers
        /\ ~IsInDuelWith(GetControllingPlayer(last.a, FALSE), GetControllingPlayer(last.b, FALSE))
    => (last.res => BothFreeForAll)

\* C17 (as claimed): for an AOE CanAttackSpell check where attacker and target
\* are both player controlled with resolved controlling players whose PvP states
\* differ, the result is true only if both controlling players are free-for-all.
C17_AOENeedsFreeForAll == AOEBetweenPlayers => (last.res => BothFreeForAll)

\* C17 witness: an AOE passes between two free-for-all players of different PvP
\* state that are in no duel
C17_Witness ==
    /\ AOEBetweenPlayers
    /\ units[last.a].duelTeam = 0
    /\ BothFreeForAll
    /\ last.res = TRUE

\* a call by an attacker that is not player controlled on a player controlled
\* target with a resolved controlling player that it does not see as enemy
NpcOnNonEnemyPlayer ==
    /\ last.op = "Unit_CanAttackSpell"
    /\ ~IsPlayerControlled(last.a)
    /\ ~Unit_IsEnemy(last.a, last.b)
    /\ IsPlayerControlled(last.b)
    /\ GetControllingPlayer(last.b, FALSE) # 0

TargetAtWarWithAttacker ==
    /\ GetFactionTemplateEntry(last.a) # 0
    /\ IsAtWar(GetControllingPlayer(last.b, FALSE), tpl[GetFactionTemplateEntry(last.a)].faction)

AssistPlayerTarget ==
    /\ last.op = "Unit_CanAssist"
    /\ IsPlayerControlled(last.b)
    /\ ~HasFlag(last.b, {"UNINTERACTIBLE"})
    /\ Unit_GetReactionTo(last.a, last.b) >= REP_FRIENDLY

\* p and q are enrolled in different duels or on opposing duel teams
DifferentDuels(p, q) ==
    \/ units[p].duelArbiter # units[q].duelArbiter
    \/ units[p].duelTeam # units[q].duelTeam

\* q is free-for-all PvP while p is not
OnlyTargetFreeForAll(p, q) == units[q].ffa /\ ~units[p].ffa

BothPlayersResolve ==
    /\ GetControllingPlayer(last.a, FALSE) # 0
    /\ GetControllingPlayer(last.b, FALSE) # 0

\* the side of a unit: its controlling player, or the unit itself when no
\* player controls it
Side(u) ==
    IF GetControllingPlayer(u, FALSE) # 0 THEN GetControllingPlayer(u, FALSE) ELSE u

\* C19 (as amended): for an interactable player controlled target to which the
\* caller's reaction is at least Friendly, CanAssist returns false exactly when
\* both controlling players resolve and they are in different duels, on
\* opposing duel teams, or the target's player is free-for-all while the
\* caller's is not; when no player controls the caller it returns true.
C19_AssistBlockedBetweenResolvedPlayers ==
    AssistPlayerTarget =>
        last.res =
            ~(/\ BothPlayersResolve
              /\ \/ DifferentDuels(GetControllingPlayer(last.a, FALSE),
                                   GetControllingPlayer(last.b, FALSE))
                 \/ OnlyTargetFreeForAll(GetControllingPlayer(last.a, FALSE),
                                         GetControllingPlayer(last.b, FALSE)))

\* C19 (as claimed): for an interactable player controlled target to which the
\* caller's reaction is at least Friendly, CanAssist returns false exactly when
\* the two sides are in different duels, on opposing duel teams, or the target
\* is free-for-all while the caller is not, for every caller, player
\* controlled or not.
C19_AssistBlockedForEveryCaller ==
    AssistPlayerTarget =>
        last.res =
            ~(\/ DifferentDuels(Side(last.a), Side(last.b))
              \/ OnlyTargetFreeForAll(Side(last.a), Side(last.b)))

\* C19 witness: a player outside free-for-all may not assist a friendly
\* free-for-all player of the same duel state
C19_Witness ==
    /\ AssistPlayerTarget
    /\ BothPlayersResolve
    /\ last.a # last.b
    /\ ~DifferentDuels(Side(last.a), Side(last.b))
    /\ OnlyTargetFreeForAll(Side(last.a), Side(last.b))
    /\ last.res = FALSE

CooperateCall == last.op = "Unit_CanCooperate"

EitherCharmed == GetCharmerGuid(last.a) # 0 \/ GetCharmerGuid(last.b) # 0

EqualGroupMasks ==
    /\ GetFactionTemplateEntry(last.a) # 0
    /\ GetFactionTemplateEntry(last.b) # 0
    /\ tpl[GetFactionTemplateEntry(last.a)].factionGroupMask
         = tpl[GetFactionTemplateEntry(last.b)].factionGroupMask

\* C20 (as amended): CanCooperate(a, b) is false when a is b and when either
\* side has a charmer; otherwise it is true exactly when both have faction
\* templates with equal faction group masks and a cannot attack b.
C20_CooperateNeedsNoAttackOnTarget ==
    CooperateCall =>
        last.res = (/\ last.a # last.b
                    /\ ~EitherCharmed
                    /\ EqualGroupMasks
                    /\ ~Unit_CanAttack(last.a, last.b))

\* C20 (as claimed): CanCooperate(a, b) is false when a is b and when either
\* side has a charmer; otherwise it is true exactly when both have faction
\* templates with equal faction group masks and neither can attack the other.
C20_CooperateNeedsNoAttackEitherWay ==
    CooperateCall =>
        last.res = (/\ last.a # last.b
                    /\ ~EitherCharmed
                    /\ EqualGroupMasks
                    /\ ~Unit_CanAttack(last.a, last.b)
                    /\ ~Unit_CanAttack(last.b, last.a))

\* C20 witness: two uncharmed units of equal group masks that cannot attack
\* each other cooperate
C20_Witness ==
    /\ CooperateCall
    /\ last.a # last.b
    /\ ~EitherCharmed
    /\ EqualGroupMasks
    /\ ~Unit_CanAttack(last.b, last.a)
    /\ last.res = TRUE

FogOps ==
    {"Unit_IsFogOfWarVisibleStealth", "Unit_IsFogOfWarVisibleHealth",
     "Unit_IsFogOfWarVisibleStats"}

\* C13: when the observer is a player in game master mode, the three fog of
\* war gates return true, for every mode value and every group, team, charm
\* and faction state of the two units.
C13_GameMasterSeesAll ==
    last.op \in FogOps /\ IsGameMaster(last.b) => last.res = TRUE

\* C13 witness: a game master sees the health of a player of the other team
\* outside its group, which mode 0 hides from everybody else
C13_Witness ==
    /\ last.op = "Unit_IsFogOfWarVisibleHealth"
    /\ IsGameMaster(last.b)
    /\ last.a # last.b
    /\ config.fogOfWarHealth = 0
    /\ ~IsInGroup(last.a, last.b, FALSE, TRUE)
    /\ last.res = TRUE

\* the answer of a gate in its mode 0
StealthDefault == IsInGroup(last.a, last.b, FALSE, FALSE)

HealthDefault == IsInGroup(last.a, last.b, FALSE, TRUE)

StatsDefault == last.a = last.b \/ units[last.a].summoner = last.b

SameTeam == Unit_IsInTeam(last.a, last.b, IsInTeam_ignoreCharms)

\* C14: for an observer that is no game master, stealth in mode 1 is
\* CanCooperate and in every other mode IsInGroup; health in mode 1 is
\* IsInTeam, in mode 2 true and in every other mode IsInGroup ignoring charms;
\* stats in mode 1 is IsInTeam, in mode 2 true and in every other mode "the
\* observer itself or the observer's own summon".
C14_UnrecognisedModeIsModeZero ==
    /\ last.op = "Unit_IsFogOfWarVisibleStealth" /\ ~IsGameMaster(last.b) =>
            last.res = IF config.fogOfWarStealth = 1
                       THEN Unit_CanCooperate(last.a, last.b)
                       ELSE StealthDefault
    /\ last.op = "Unit_IsFogOfWarVisibleHealth" /\ ~IsGameMaster(last.b) =>
            last.res = CASE config.fogOfWarHealth = 1 -> SameTeam
                         [] config.fogOfWarHealth = 2 -> TRUE
                         [] OTHER -> HealthDefault
    /\ last.op = "Unit_IsFogOfWarVisibleStats" /\ ~IsGameMaster(last.b) =>
            last.res = CASE config.fogOfWarStats = 1 -> SameTeam
                         [] config.fogOfWarStats = 2 -> TRUE
                         [] OTHER -> StatsDefault

\* C14 witness: under a stats mode that is not recognised an observer that is
\* no game master is refused the stats of a unit that is not its summon
C14_Witness ==
    /\ last.op = "Unit_IsFogOfWarVisibleStats"
    /\ ~IsGameMaster(last.b)
    /\ config.fogOfWarStats \notin {0, 1, 2}
    /\ ~StatsDefault
    /\ last.res = FALSE

CorpseOps == {"Unit_GetReactionTo_Corpse", "Player_GetReactionTo_Corpse"}

\* C15: no reaction query on a corpse reaches a fatal assertion because a
\* faction template is missing: when the viewer has no faction template, or the
\* generic ally template of the cross-faction path is not in the store, the
\* reaction is Neutral.
C15_MissingTemplateYieldsNeutral ==
    last.op \in CorpseOps =>
        /\ last.res # Abort
        /\ GetFactionTemplateEntry(last.a) = 0 => last.res = REP_NEUTRAL

SteppedOps ==
    {"GetControllingPlayer", "GameObject_GetReactionTo_steps",
     "DynamicObject_GetReactionTo_steps"}

Running == last.op \in SteppedOps /\ last.pc # "done"

Returned == last.op \in SteppedOps /\ last.pc = "done"

\* the value a call in steps returns is the value of the function
ReturnsTheValue ==
    /\ InFlight("GetControllingPlayer", "done") =>
            last.res = GetControllingPlayer(last.a, last.ignoreCharms)
    /\ InFlight("GameObject_GetReactionTo_steps", "done") =>
            last.res = GameObject_GetReactionTo(last.a, last.b)
    /\ InFlight("DynamicObject_GetReactionTo_steps", "done") =>
            last.res = DynamicObject_GetReactionTo(last.a, last.b)

\* C21: under every configuration of owner, master and charm relations, the
\* cyclic ones included, a call of controlling player resolution or of an
\* owner delegating reaction query follows at most one master, owner or caster
\* link, ends, and returns the value of the function.
C21_IndirectionEndsAfterOneLink ==
    /\ [](last.op \in SteppedOps => last.hops <= 1)
    /\ []ReturnsTheValue
    /\ Running ~> Returned

\* C21 witness: the controlling player of a creature charmed by a creature
\* that it charms itself is resolved, to none, after one link
C21_Witness ==
    /\ InFlight("GetControllingPlayer", "done")
    /\ ~last.ignoreCharms
    /\ last.a # last.at
    /\ units[last.a].charmer = last.at
    /\ units[last.at].charmer = last.a
    /\ units[last.at].typeId = "TYPEID_UNIT"
    /\ last.hops = 1
    /\ last.res = 0

AttackOps ==
    {"Unit_CanAttack", "Unit_CanAttackNow", "Unit_CanAttackOnSight",
     "Unit_CanJoinInAttacking", "Unit_CanAttackServerside"}

\* C22: whenever the target carries one of the flags spawning, not attackable,
\* untargetable, taxi flight or uninteractable, CanAttack, CanAttackNow,
\* CanAttackOnSight, CanJoinInAttacking and CanAttackServerside return false,
\* whatever the reaction, duel, PvP and immunity state of both sides.
C22_FlaggedTargetIsNeverAttackable ==
    last.op \in AttackOps /\ HasFlag(last.b, AttackBlockMask) => last.res = FALSE

\* C22 witness: a target on a taxi flight that the attacker sees as enemy is
\* refused by CanAttackServerside even with both immunity switches off
C22_Witness ==
    /\ last.op = "Unit_CanAttackServerside"
    /\ last.ignoreFlagsSource
    /\ last.ignoreFlagsTarget
    /\ HasFlag(last.b, {"TAXI_FLIGHT"})
    /\ Unit_IsEnemy(last.a, last.b)
    /\ last.res = FALSE

\* a CanAttack call between two units that no player controls and that pass
\* the ghost, target flag and immunity checks
CreaturesPastTheGates ==
    /\ last.op = "Unit_CanAttack"
    /\ ~IsPlayerControlled(last.a)
    /\ ~IsPlayerControlled(last.b)
    /\ ~(/\ units[last.a].typeId = "TYPEID_UNIT"
          /\ units[last.b].typeId = "TYPEID_PLAYER"
          /\ HasPlayerFlag(last.b, {"GHOST"})
          /\ ~units[last.a].visibleToGhosts)
    /\ ~HasFlag(last.b, AttackBlockMask)
    /\ ~HasFlag(last.b, {"IMMUNE_TO_NPC"})
    /\ ~HasFlag(last.a, {"IMMUNE_TO_NPC"})

\* C23: for two units that no player controls and that pass the ghost, target
\* flag and immunity checks, CanAttack(a, b) is true exactly when a regards b
\* as an enemy or b regards a as an enemy.
C23_EitherEnmitySuffices ==
    CreaturesPastTheGates =>
        last.res = (Unit_IsEnemy(last.a, last.b) \/ Unit_IsEnemy(last.b, last.a))

\* C23 witness: a unit that does not see a monster as enemy can attack it
\* because the monster sees it as enemy
C23_Witness ==
    /\ CreaturesPastTheGates
    /\ ~Unit_IsEnemy(last.a, last.b)
    /\ Unit_IsEnemy(last.b, last.a)
    /\ last.res = TRUE

\* a GetReactionTo call by a player controlled caller with a resolved
\* controlling player on a target that no player controls and that has a
\* faction template
PlayerOnCreature ==
    /\ last.op = "Unit_GetReactionTo"
    /\ last.a # last.b
    /\ IsPlayerControlled(last.a)
    /\ GetControllingPlayer(last.a, FALSE) # 0
    /\ ~IsPlayerControlled(last.b)
    /\ GetFactionTemplateEntry(last.b) # 0

CallerForcedRank ==
    GetForcedRankIfAny(GetControllingPlayer(last.a, FALSE), GetFactionTemplateEntry(last.b))

CallerContestedAtGuard ==
    /\ HasPlayerFlag(GetControllingPlayer(last.a, FALSE), {"CONTESTED_PVP"})
    /\ tpl[GetFactionTemplateEntry(last.b)].contestedGuard

TargetFaction == tpl[GetFactionTemplateEntry(last.b)].faction

WarOrFriendly ==
    IF IsAtWar(GetControllingPlayer(last.a, FALSE), TargetFaction)
    THEN REP_HOSTILE ELSE REP_FRIENDLY

\* C24 (as amended): for a player controlled caller with a resolved player and
\* a target that no player controls and that has a faction template, the
\* reaction is the player's forced rank for the template if there is one;
\* else, if the target's faction tracks reputation, Hostile when the player is
\* contested and the template a contested guard's, else Hostile when at war and
\* Friendly otherwise; else the faction template to entity fallback.
C24_ContestedRuleNeedsReputation ==
    PlayerOnCreature =>
        last.res = IF CallerForcedRank # NoRank THEN CallerForcedRank
                   ELSE IF FactionHasReputation(TargetFaction)
                   THEN IF CallerContestedAtGuard THEN REP_HOSTILE ELSE WarOrFriendly
                   ELSE ReactionFallback(last.a, last.b)

\* C24 (as claimed): the forced rank if there is one; else Hostile if the
\* player is contested and the target's template a contested guard's; else, if
\* the target's faction tracks reputation, Hostile when at war and Friendly
\* otherwise; else the faction template to entity fallback.
C24_ForcedThenContestedThenWar ==
    PlayerOnCreature =>
        last.res = IF CallerForcedRank # NoRank THEN CallerForcedRank
                   ELSE IF CallerContestedAtGuard THEN REP_HOSTILE
                   ELSE IF FactionHasReputation(TargetFaction) THEN WarOrFriendly
                   ELSE ReactionFallback(last.a, last.b)

\* C24 witness: a contested player with a forced rank for a contested guard's
\* faction gets the forced rank
C24_Witness ==
    /\ PlayerOnCreature
    /\ CallerContestedAtGuard
    /\ FactionHasReputation(TargetFaction)
    /\ CallerForcedRank = REP_EXALTED
    /\ last.res = REP_EXALTED

\* CanAttackServerside on the arguments of the last call
ServersideAnswer ==
    Unit_CanAttackServerside(last.a, last.b, last.ignoreFlagsSource, last.ignoreFlagsTarget)

\* the target's controlling player is at war with the attacker's faction, which
\* tracks reputation
AtWarWithAttacker ==
    /\ GetControllingPlayer(last.b, FALSE) # 0
    /\ GetFactionTemplateEntry(last.a) # 0
    /\ FactionHasReputation(tpl[GetFactionTemplateEntry(last.a)].faction)
    /\ IsAtWar(GetControllingPlayer(last.b, FALSE), tpl[GetFactionTemplateEntry(last.a)].faction)

\* C25: CanAttackInCombat differs from CanAttackServerside on the same
\* arguments only when the attacker is not player controlled, the target is
\* player controlled, the attacker regards the target as a friend and the
\* target's controlling player is at war with the attacker's reputation
\* tracking faction; in every other case the two are equal.
C25_CarveOutOnlyForNpcAttackers ==
    last.op = "Unit_CanAttackInCombat" =>
        \/ last.res = ServersideAnswer
        \/ /\ last.res = TRUE
           /\ ~IsPlayerControlled(last.a)
           /\ IsPlayerControlled(last.b)
           /\ Unit_IsFriend(last.a, last.b)
           /\ AtWarWithAttacker

\* the attacker is a creature that cannot see the ghost of the player it
\* targets
GhostRejected ==
    /\ units[last.a].typeId = "TYPEID_UNIT"
    /\ units[last.b].typeId = "TYPEID_PLAYER"
    /\ HasPlayerFlag(last.b, {"GHOST"})
    /\ ~units[last.a].visibleToGhosts

\* C26: CanAttackInCombat and CanAttackSpell never return true for a target
\* that CanAttackServerside rejects on the ghost check or on the target flag
\* check (spawning, not attackable, untargetable, taxi flight, uninteractable).
C26_CarveOutKeepsTheGates ==
    last.op \in {"Unit_CanAttackInCombat", "Unit_CanAttackSpell"}
        /\ (GhostRejected \/ HasFlag(last.b, AttackBlockMask))
    => last.res = FALSE

\* C27: IsInGuild returns true for two player controlled units with distinct
\* controlling players only if both players belong to a guild and to the same
\* one; two distinct players of no guild are not in the same guild.
C27_GuildlessPlayersShareNoGuild ==
    LET thisPlayer == GetControllingPlayer(last.a, last.ignoreCharms)
        otherPlayer == GetControllingPlayer(last.b, last.ignoreCharms)
    IN  (/\ last.op = "Unit_IsInGuild"
         /\ last.a # last.b
         /\ IsPlayerControlled(last.a)
         /\ IsPlayerControlled(last.b)
         /\ thisPlayer # 0
         /\ otherPlayer # 0
         /\ thisPlayer # otherPlayer
         /\ last.res = TRUE)
        => /\ units[thisPlayer].guildId # 0
           /\ units[thisPlayer].guildId = units[otherPlayer].guildId

\* the last call is CanInteractNow on a dead target
DeadTargetCall ==
    IF last.op = "Unit_CanInteractNow" THEN ~units[last.b].alive ELSE FALSE

\* the target of the last call is a creature flagged INTERACT_WHILE_DEAD
FlaggedCreature ==
    units[last.b].typeId = "TYPEID_UNIT" /\ units[last.b].interactWhileDead

\* every gate of CanInteractNow but the dead target gate lets the last call pass
PassesTheOtherGates ==
    /\ ~HasFlag(last.a, {"TAXI_FLIGHT"})
    /\ units[last.a].charmer = 0
    /\ (units[last.a].alive
            \/ (units[last.a].typeId = "TYPEID_PLAYER" /\ HasPlayerFlag(last.a, {"GHOST"})))
    /\ ~(/\ IsShapeShifted(last.a)
         /\ units[last.a].shapeshiftForm \in DOMAIN ShapeshiftForms
         /\ ~ShapeshiftForms[units[last.a].shapeshiftForm].canNpcInteract)
    /\ units[last.b].charmer = 0
    /\ ~HasFlag(last.b, {"PET_IN_COMBAT"})
    /\ units[last.b].victim = 0
    /\ Unit_CanInteract(last.a, last.b)

\* C28: CanInteractNow on a dead target returns false unless the target is a
\* creature flagged interact-while-dead, whatever the kind of the caller; on
\* such a flagged creature the dead target gate blocks no caller, player or
\* creature: the call returns what the other gates decide.
C28_DeadTargetGateLooksAtTheTarget ==
    DeadTargetCall =>
        /\ ~last.fault
        /\ IF FlaggedCreature THEN last.res = PassesTheOtherGates ELSE last.res = FALSE

====
